---------------------------- MODULE Spec2Model ----------------------------
(***************************************************************************)
(* Lighttr: the request model (RequestData.Validate, RequestData.Execute)  *)
(* as a state machine.  Go strings that the code parses (URLs, methods,    *)
(* query keys and values) are sequences of one-character strings, so that  *)
(* url.Parse, url.Values.Encode and friends are computed, not assumed.     *)
(***************************************************************************)
EXTENDS Integers, Sequences, FiniteSets, TLC

\* Go's nil (a nil error, a nil *ResponseData).
Nil == "<nil>"

(***************************************************************************)
(* Characters and strings                                                  *)
(***************************************************************************)
IsLetter(c) == c \in {"h", "k", "m", "p", "x", "z", "E", "G", "H", "T"}
IsDigit(c) == c \in {"1", "2", "3", "5", "6"}

\* strings.ToLower on the letters of the model's alphabet
ToLowerChar(c) ==
    CASE c = "H" -> "h" [] c = "G" -> "g" [] c = "E" -> "e" [] c = "T" -> "t"
      [] OTHER -> c

ToLower(s) == [i \in 1..Len(s) |-> ToLowerChar(s[i])]

\* net/url ishex / unhex
HexVal == [c \in {"1", "2", "3", "5", "6", "A", "B", "D", "F"} |->
            CASE c = "1" -> 1 [] c = "2" -> 2 [] c = "3" -> 3 [] c = "5" -> 5
              [] c = "6" -> 6 [] c = "A" -> 10 [] c = "B" -> 11 [] c = "D" -> 13
              [] c = "F" -> 15]

IsHex(c) == c \in DOMAIN HexVal

\* the byte a character stands for (ASCII)
ByteOf(c) ==
    CASE c = " " -> 32 [] c = "%" -> 37 [] c = "&" -> 38 [] c = "+" -> 43
      [] c = "/" -> 47 [] c = "1" -> 49 [] c = "2" -> 50 [] c = "3" -> 51
      [] c = "5" -> 53 [] c = "6" -> 54 [] c = ":" -> 58 [] c = "=" -> 61
      [] c = "?" -> 63 [] c = "A" -> 65 [] c = "B" -> 66 [] c = "D" -> 68 [] c = "F" -> 70
      [] c = "G" -> 71 [] c = "H" -> 72 [] c = "h" -> 104 [] c = "k" -> 107
      [] c = "m" -> 109 [] c = "p" -> 112 [] c = "x" -> 120 [] c = "z" -> 122
      [] OTHER -> 255

\* the character of a byte; bytes outside the model's alphabet are kept apart
CharOf(b) ==
    CASE b = 32 -> " " [] b = 37 -> "%" [] b = 38 -> "&" [] b = 43 -> "+"
      [] b = 47 -> "/" [] b = 49 -> "1" [] b = 50 -> "2" [] b = 51 -> "3"
      [] b = 53 -> "5" [] b = 54 -> "6" [] b = 58 -> ":" [] b = 61 -> "="
      [] b = 63 -> "?" [] OTHER -> "\\x"

\* strings.Index (1-based; 0 when absent)
IndexOf(s, c) ==
    IF \E i \in 1..Len(s) : s[i] = c
    THEN CHOOSE i \in 1..Len(s) : s[i] = c /\ \A j \in 1..(i - 1) : s[j] # c
    ELSE 0

\* strings.LastIndex (1-based; 0 when absent)
LastIndexOf(s, c) ==
    IF \E i \in 1..Len(s) : s[i] = c
    THEN CHOOSE i \in 1..Len(s) : s[i] = c /\ \A j \in (i + 1)..Len(s) : s[j] # c
    ELSE 0

\* strings.Count of a one-character separator
Count(s, c) == Cardinality({i \in 1..Len(s) : s[i] = c})

\* strings.Cut
Cut(s, c) ==
    LET i == IndexOf(s, c) IN
    IF i = 0 THEN [before |-> s, after |-> <<>>, found |-> FALSE]
    ELSE [before |-> SubSeq(s, 1, i - 1), after |-> SubSeq(s, i + 1, Len(s)),
          found |-> TRUE]

HasPrefix(s, p) == Len(s) >= Len(p) /\ SubSeq(s, 1, Len(p)) = p

\* strings.Split on a one-character separator
RECURSIVE Split(_, _)
Split(s, c) ==
    LET cut == Cut(s, c) IN
    IF cut.found THEN <<cut.before>> \o Split(cut.after, c) ELSE <<s>>

\* byte-wise string comparison, s <= t
RECURSIVE StrLeq(_, _)
StrLeq(s, t) ==
    IF s = <<>> THEN TRUE
    ELSE IF t = <<>> THEN FALSE
    ELSE IF ByteOf(Head(s)) < ByteOf(Head(t)) THEN TRUE
    ELSE IF ByteOf(Head(s)) > ByteOf(Head(t)) THEN FALSE
    ELSE StrLeq(Tail(s), Tail(t))

\* every '%' is followed by two hex digits (net/url unescape's first pass)
EscapesOK(s) ==
    \A i \in 1..Len(s) :
        s[i] = "%" => (i + 2 <= Len(s) /\ IsHex(s[i + 1]) /\ IsHex(s[i + 2]))


(***************************************************************************)
(* net/url as the request code uses it                                     *)
(***************************************************************************)
\* getScheme: (scheme, rest, err)
RECURSIVE getSchemeAt(_, _)
getSchemeAt(s, i) ==
    IF i > Len(s) THEN [scheme |-> <<>>, rest |-> s, err |-> Nil]
    ELSE IF IsLetter(s[i]) THEN getSchemeAt(s, i + 1)
    ELSE IF IsDigit(s[i]) \/ s[i] \in {"+", "-", "."}
         THEN IF i = 1 THEN [scheme |-> <<>>, rest |-> s, err |-> Nil]
              ELSE getSchemeAt(s, i + 1)
    ELSE IF s[i] = ":"
         THEN IF i = 1
              THEN [scheme |-> <<>>, rest |-> <<>>, err |-> "missing protocol scheme"]
              ELSE [scheme |-> SubSeq(s, 1, i - 1),
                    rest |-> SubSeq(s, i + 1, Len(s)), err |-> Nil]
    ELSE [scheme |-> <<>>, rest |-> s, err |-> Nil]

getScheme(s) == getSchemeAt(s, 1)

\* validOptionalPort: "" or ":" followed by digits
validOptionalPort(port) ==
    \/ port = <<>>
    \/ port[1] = ":" /\ \A i \in 2..Len(port) : IsDigit(port[i])

\* shouldEscape(c, encodeHost): what may not stand in a host
HostCharOK(c) == IsLetter(c) \/ IsDigit(c) \/ c \in {"-", ".", "&", "+", "=", ":", "%"}

\* parseHost without brackets: the port check, then unescape(host, encodeHost)
parseHost(host) ==
    LET i == LastIndexOf(host, ":") IN
    IF i # 0 /\ ~validOptionalPort(SubSeq(host, i, Len(host)))
    THEN "invalid port after host"
    ELSE IF ~EscapesOK(host) THEN "invalid URL escape"
    ELSE IF \E j \in 1..Len(host) :
                host[j] = "%" /\ HexVal[host[j + 1]] < 8
                /\ SubSeq(host, j, j + 2) # <<"%", "2", "5">>
         THEN "invalid URL escape"
    ELSE IF \E j \in 1..Len(host) : ~HostCharOK(host[j])
         THEN "invalid character in host name"
    ELSE Nil

\* The zero URL; Path is kept in its escaped form (URL.EscapedPath), which for
\* the paths of the model is the text that was parsed.
EmptyURL ==
    [err |-> Nil, Scheme |-> <<>>, Opaque |-> <<>>, Host |-> <<>>, Path |-> <<>>,
     RawQuery |-> <<>>, ForceQuery |-> FALSE]

\* url.Parse(rawURL), for URLs without fragment, userinfo and brackets
urlParse(rawURL) ==
    LET sch == getScheme(rawURL)
        force == sch.rest # <<>> /\ sch.rest[Len(sch.rest)] = "?"
                 /\ Count(sch.rest, "?") = 1
        cut == Cut(sch.rest, "?")
        rest == IF force THEN SubSeq(sch.rest, 1, Len(sch.rest) - 1) ELSE cut.before
        query == IF force THEN <<>> ELSE cut.after
        u0 == [EmptyURL EXCEPT !.Scheme = ToLower(sch.scheme), !.RawQuery = query,
                               !.ForceQuery = force]
        auth == Cut(SubSeq(rest, 3, Len(rest)), "/")
        authority == auth.before
        path == IF HasPrefix(rest, <<"/", "/">>)
                THEN (IF auth.found THEN <<"/">> \o auth.after ELSE <<>>)
                ELSE rest
    IN
    IF sch.err # Nil THEN [EmptyURL EXCEPT !.err = sch.err]
    ELSE IF ~HasPrefix(rest, <<"/">>) /\ u0.Scheme # <<>>
         THEN [u0 EXCEPT !.Opaque = rest]
    ELSE IF ~HasPrefix(rest, <<"/">>) /\ IndexOf(Cut(rest, "/").before, ":") # 0
         THEN [EmptyURL EXCEPT !.err = "first path segment in URL cannot contain colon"]
    ELSE IF HasPrefix(rest, <<"/", "/">>) /\ parseHost(authority) # Nil
         THEN [EmptyURL EXCEPT !.err = parseHost(authority)]
    ELSE IF ~EscapesOK(path)
         THEN [EmptyURL EXCEPT !.err = "invalid URL escape"]
    ELSE [u0 EXCEPT !.Host = IF HasPrefix(rest, <<"/", "/">>) THEN authority ELSE <<>>,
                    !.Path = path]

\* URL.String(), for URLs without fragment and userinfo
urlString(u) ==
    (IF u.Scheme # <<>> THEN u.Scheme \o <<":">> ELSE <<>>)
    \o (IF u.Opaque # <<>> THEN u.Opaque
        ELSE (IF (u.Scheme # <<>> \/ u.Host # <<>>) /\ (u.Host # <<>> \/ u.Path # <<>>)
              THEN <<"/", "/">> \o u.Host ELSE <<>>)
             \o (IF u.Path # <<>> /\ u.Path[1] # "/" /\ u.Host # <<>>
                 THEN <<"/">> ELSE <<>>)
             \o u.Path)
    \o (IF u.ForceQuery \/ u.RawQuery # <<>> THEN <<"?">> \o u.RawQuery ELSE <<>>)

\* QueryUnescape: '+' is a space, %XX is the byte XX; fails on a bad escape
RECURSIVE unescapeFrom(_)
unescapeFrom(s) ==
    IF s = <<>> THEN <<>>
    ELSE IF s[1] = "%"
         THEN <<CharOf(16 * HexVal[s[2]] + HexVal[s[3]])>>
              \o unescapeFrom(SubSeq(s, 4, Len(s)))
    ELSE IF s[1] = "+" THEN <<" ">> \o unescapeFrom(Tail(s))
    ELSE <<s[1]>> \o unescapeFrom(Tail(s))

QueryUnescape(s) ==
    IF EscapesOK(s) THEN [ok |-> TRUE, val |-> unescapeFrom(s)]
    ELSE [ok |-> FALSE, val |-> <<>>]

\* QueryEscape of one character: letters and digits stay, a space is '+',
\* the rest is %XX
escapeChar(c) ==
    CASE IsLetter(c) \/ IsDigit(c) \/ c \in {"A", "B", "D", "F"} -> <<c>>
      [] c = " " -> <<"+">>
      [] c = "%" -> <<"%", "2", "5">>
      [] c = "&" -> <<"%", "2", "6">>
      [] c = "+" -> <<"%", "2", "B">>
      [] c = "/" -> <<"%", "2", "F">>
      [] c = ":" -> <<"%", "3", "A">>
      [] c = "=" -> <<"%", "3", "D">>
      [] c = "?" -> <<"%", "3", "F">>
      [] OTHER -> <<"%", "F", "F">>

RECURSIVE QueryEscape(_)
QueryEscape(s) ==
    IF s = <<>> THEN <<>> ELSE escapeChar(Head(s)) \o QueryEscape(Tail(s))

\* url.Values: a function from keys to the sequence of their values
NoValues == [k \in {} |-> <<>>]

\* Values.Add
ValuesAdd(v, key, value) ==
    IF key \in DOMAIN v THEN [v EXCEPT ![key] = Append(@, value)]
    ELSE [k \in DOMAIN v \cup {key} |-> IF k = key THEN <<value>> ELSE v[k]]

\* url.ParseQuery with its error dropped, as URL.Query() does: a segment that
\* is empty or whose key or value does not unescape adds nothing.
RECURSIVE parseQuerySegs(_, _)
parseQuerySegs(segs, v) ==
    IF segs = <<>> THEN v
    ELSE LET kv == Cut(Head(segs), "=")
             key == QueryUnescape(kv.before)
             value == QueryUnescape(kv.after)
         IN IF Head(segs) = <<>> \/ ~key.ok \/ ~value.ok
            THEN parseQuerySegs(Tail(segs), v)
            ELSE parseQuerySegs(Tail(segs), ValuesAdd(v, key.val, value.val))

urlQuery(rawQuery) == parseQuerySegs(Split(rawQuery, "&"), NoValues)

\* the keys of a set in byte order (sort.Strings)
RECURSIVE SortKeys(_)
SortKeys(S) ==
    IF S = {} THEN <<>>
    ELSE LET least == CHOOSE k \in S : \A j \in S : StrLeq(k, j)
         IN <<least>> \o SortKeys(S \ {least})

RECURSIVE encodeKey(_, _)
encodeKey(key, vals) ==
    IF vals = <<>> THEN <<>>
    ELSE <<QueryEscape(key) \o <<"=">> \o QueryEscape(Head(vals))>>
         \o encodeKey(key, Tail(vals))

RECURSIVE encodeKeys(_, _)
encodeKeys(keys, v) ==
    IF keys = <<>> THEN <<>>
    ELSE encodeKey(Head(keys), v[Head(keys)]) \o encodeKeys(Tail(keys), v)

RECURSIVE JoinAmp(_)
JoinAmp(parts) ==
    IF parts = <<>> THEN <<>>
    ELSE IF Len(parts) = 1 THEN Head(parts)
    ELSE Head(parts) \o <<"&">> \o JoinAmp(Tail(parts))

\* Values.Encode: "k=v" pairs joined by '&', keys sorted
ValuesEncode(v) == JoinAmp(encodeKeys(SortKeys(DOMAIN v), v))


(***************************************************************************)
(* The request model: AuthData, RequestData, Validate                      *)
(***************************************************************************)
\* A nil error.  An error is the sequence of the pieces fmt.Errorf joins.
NoError == <<>>

\* AuthType constants
NoAuth == "none"
BasicAuth == "basic"
APIKeyAuth == "apikey"
MutualTLSAuth == "mtls"

\* AuthData, and its zero value
AuthData(type, username, password, apiKey, certFile, keyFile) ==
    [Type |-> type, Username |-> username, Password |-> password,
     APIKey |-> apiKey, CertFile |-> certFile, KeyFile |-> keyFile]

ZeroAuth == AuthData("", "", "", "", "", "")

\* The files of the machine the program runs on.  cert.pem and key.pem are a
\* matching PEM pair, junk.pem exists but holds no PEM data, gone.pem does not
\* exist, and hosts/c.pem and hosts/k.pem name entries under the regular file
\* "hosts", so they do not exist either.
ExistingFiles == {"cert.pem", "key.pem", "junk.pem", "hosts"}

FileExists(path) == path \in ExistingFiles

\* os.Stat's error: ENOENT when the last component is missing, ENOTDIR when a
\* directory component of the path is not a directory
osStat(path) ==
    IF FileExists(path) THEN Nil
    ELSE IF path \in {"hosts/c.pem", "hosts/k.pem"} THEN "ENOTDIR"
    ELSE "ENOENT"

\* os.IsNotExist
IsNotExist(err) == err = "ENOENT"

\* tls.LoadX509KeyPair's error
LoadX509KeyPair(certFile, keyFile) ==
    IF osStat(certFile) # Nil THEN <<"open ", certFile, ": ", osStat(certFile)>>
    ELSE IF osStat(keyFile) # Nil THEN <<"open ", keyFile, ": ", osStat(keyFile)>>
    ELSE IF certFile # "cert.pem"
         THEN <<"tls: failed to find any PEM data in certificate input">>
    ELSE IF keyFile # "key.pem"
         THEN <<"tls: failed to find any PEM data in key input">>
    ELSE NoError

\* ValidateAuth with the empty tag taken for "none"
ValidateAuthEmptyIsNone(a) ==
    CASE a.Type = BasicAuth ->
            IF a.Username = ""
            THEN <<"username is required for basic authentication">>
            ELSE IF a.Password = ""
            THEN <<"password is required for basic authentication">>
            ELSE NoError
      [] a.Type = APIKeyAuth ->
            IF a.APIKey = ""
            THEN <<"API key is required for API key authentication">>
            ELSE NoError
      [] a.Type = MutualTLSAuth ->
            IF a.CertFile = ""
            THEN <<"certificate file is required for mutual TLS authentication">>
            ELSE IF a.KeyFile = ""
            THEN <<"key file is required for mutual TLS authentication">>
            ELSE IF IsNotExist(osStat(a.CertFile))
            THEN <<"certificate file does not exist: ", a.CertFile>>
            ELSE IF IsNotExist(osStat(a.KeyFile))
            THEN <<"key file does not exist: ", a.KeyFile>>
            ELSE NoError
      [] a.Type \in {NoAuth, ""} -> NoError
      [] OTHER -> <<"invalid authentication type: ", a.Type>>

\* Validate's switch on r.Auth.Type
ValidateAuth(a) ==
    CASE a.Type = BasicAuth ->
            IF a.Username = ""
            THEN <<"username is required for basic authentication">>
            ELSE IF a.Password = ""
            THEN <<"password is required for basic authentication">>
            ELSE NoError
      [] a.Type = APIKeyAuth ->
            IF a.APIKey = ""
            THEN <<"API key is required for API key authentication">>
            ELSE NoError
      [] a.Type = MutualTLSAuth ->
            IF a.CertFile = ""
            THEN <<"certificate file is required for mutual TLS authentication">>
            ELSE IF a.KeyFile = ""
            THEN <<"key file is required for mutual TLS authentication">>
            ELSE IF IsNotExist(osStat(a.CertFile))
            THEN <<"certificate file does not exist: ", a.CertFile>>
            ELSE IF IsNotExist(osStat(a.KeyFile))
            THEN <<"key file does not exist: ", a.KeyFile>>
            ELSE NoError
      [] a.Type = NoAuth -> NoError
      [] OTHER -> <<"invalid authentication type: ", a.Type>>

\* RequestData.Validate
Validate(r) ==
    IF r.Method = <<>> THEN <<"method cannot be empty">>
    ELSE IF r.URL = <<>> THEN <<"URL cannot be empty">>
    ELSE IF urlParse(r.URL).err # Nil
         THEN <<"invalid URL: ", urlParse(r.URL).err>>
    ELSE IF urlParse(r.URL).Scheme = <<>> \/ urlParse(r.URL).Host = <<>>
         THEN <<"invalid URL: must include scheme and host">>
    ELSE ValidateAuth(r.Auth)


(***************************************************************************)
(* net/http as Execute uses it                                             *)
(***************************************************************************)
\* http.CanonicalHeaderKey on the header names of the model
CanonicalHeaderKey(k) ==
    CASE k = "authorization" -> "Authorization"
      [] k = "content-type" -> "Content-Type"
      [] OTHER -> k

\* http.Header: a function from canonical names to the sequence of values
NoHeader == [k \in {} |-> <<>>]

\* Header.Add appends to the values of the canonical name
HeaderAdd(h, key, value) ==
    LET ck == CanonicalHeaderKey(key) IN
    IF ck \in DOMAIN h THEN [h EXCEPT ![ck] = Append(@, value)]
    ELSE [k \in DOMAIN h \cup {ck} |-> IF k = ck THEN <<value>> ELSE h[k]]

\* Header.Set replaces the values of the canonical name
HeaderSet(h, key, value) ==
    LET ck == CanonicalHeaderKey(key) IN
    [k \in DOMAIN h \cup {ck} |-> IF k = ck THEN <<value>> ELSE h[k]]

\* Header.Get: the first value of the canonical name, "" when there is none
HeaderGet(h, key) ==
    IF CanonicalHeaderKey(key) \in DOMAIN h THEN h[CanonicalHeaderKey(key)][1]
    ELSE <<>>

\* validMethod: non-empty, token characters only
validMethod(method) ==
    method # <<>> /\ \A i \in 1..Len(method) : IsLetter(method[i]) \/ IsDigit(method[i])

\* the request before http.NewRequest has built it
NoRequest == [Method |-> <<>>, URL |-> EmptyURL, Header |-> NoHeader, Body |-> ""]

\* http.NewRequest(method, url, body): (req, err)
NewRequest(method, rawURL, body) ==
    IF ~validMethod(method)
    THEN [req |-> NoRequest, err |-> <<"net/http: invalid method">>]
    ELSE IF urlParse(rawURL).err # Nil
    THEN [req |-> NoRequest, err |-> <<"parse: ", urlParse(rawURL).err>>]
    ELSE [req |-> [Method |-> method, URL |-> urlParse(rawURL),
                   Header |-> NoHeader, Body |-> body],
          err |-> NoError]

\* Request.SetBasicAuth: Authorization is set to "Basic " + base64(user:pass)
SetBasicAuth(req, username, password) ==
    [req EXCEPT !.Header =
        HeaderSet(@, "Authorization", <<"Basic ", "base64(", username, ":", password, ")">>)]

\* &http.Client{}: the default transport, no client certificate
DefaultClient == [Certificates |-> <<>>]

(***************************************************************************)
(* RequestData.Execute, step by step                                       *)
(***************************************************************************)
\* lines 146-151: q := baseURL.Query(); q.Add for every query parameter;
\* baseURL.RawQuery = q.Encode().  The keys of a map are distinct, so the
\* order of the range does not show in the result.
RECURSIVE addParams(_, _, _)
addParams(q, keys, queryParams) ==
    IF keys = <<>> THEN q
    ELSE addParams(ValuesAdd(q, Head(keys), queryParams[Head(keys)]),
                   Tail(keys), queryParams)

MergeQuery(u, queryParams) ==
    [u EXCEPT !.RawQuery =
        ValuesEncode(addParams(urlQuery(u.RawQuery), SortKeys(DOMAIN queryParams),
                               queryParams))]

\* lines 159-162: req.Header.Add for every header, in the order the range
\* over the map happens to take
RECURSIVE AddHeaders(_, _, _)
AddHeaders(h, order, headers) ==
    IF order = <<>> THEN h
    ELSE AddHeaders(HeaderAdd(h, Head(order), headers[Head(order)]),
                    Tail(order), headers)

\* the orders in which a range over a map with these keys can run
RangeOrders(keys) ==
    {o \in [1..Cardinality(keys) -> keys] : \A i, j \in DOMAIN o : o[i] = o[j] => i = j}

\* ApplyAuth going on without a certificate when the pair does not load
ApplyAuthLoadIgnored(req, client, auth) ==
    CASE auth.Type = BasicAuth ->
            [req |-> SetBasicAuth(req, auth.Username, auth.Password),
             client |-> client, err |-> NoError]
      [] auth.Type = APIKeyAuth ->
            [req |-> IF auth.APIKey # ""
                     THEN [req EXCEPT !.Header =
                             HeaderAdd(@, "Authorization", <<"Bearer ", auth.APIKey>>)]
                     ELSE req,
             client |-> client, err |-> NoError]
      [] auth.Type = MutualTLSAuth ->
            [req |-> req,
             client |-> IF LoadX509KeyPair(auth.CertFile, auth.KeyFile) # NoError
                        THEN client
                        ELSE [Certificates |-> <<[cert |-> auth.CertFile,
                                                  key |-> auth.KeyFile]>>],
             err |-> NoError]
      [] OTHER -> [req |-> req, client |-> client, err |-> NoError]

\* ApplyAuth sending the API key under a header of its own
ApplyAuthOwnHeader(req, client, auth) ==
    CASE auth.Type = BasicAuth ->
            [req |-> SetBasicAuth(req, auth.Username, auth.Password),
             client |-> client, err |-> NoError]
      [] auth.Type = APIKeyAuth ->
            [req |-> IF auth.APIKey # ""
                     THEN [req EXCEPT !.Header =
                             HeaderAdd(@, "X-API-Key", <<auth.APIKey>>)]
                     ELSE req,
             client |-> client, err |-> NoError]
      [] auth.Type = MutualTLSAuth ->
            IF LoadX509KeyPair(auth.CertFile, auth.KeyFile) # NoError
            THEN [req |-> req, client |-> client,
                  err |-> <<"failed to load client certificate: ">>
                          \o LoadX509KeyPair(auth.CertFile, auth.KeyFile)]
            ELSE [req |-> req,
                  client |-> [Certificates |-> <<[cert |-> auth.CertFile,
                                                  key |-> auth.KeyFile]>>],
                  err |-> NoError]
      [] OTHER -> [req |-> req, client |-> client, err |-> NoError]

\* lines 164-195: the switch on r.Auth.Type: (req, client, err)
ApplyAuth(req, client, auth) ==
    CASE auth.Type = BasicAuth ->
            [req |-> SetBasicAuth(req, auth.Username, auth.Password),
             client |-> client, err |-> NoError]
      [] auth.Type = APIKeyAuth ->
            [req |-> IF auth.APIKey # ""
                     THEN [req EXCEPT !.Header =
                             HeaderAdd(@, "Authorization", <<"Bearer ", auth.APIKey>>)]
                     ELSE req,
             client |-> client, err |-> NoError]
      [] auth.Type = MutualTLSAuth ->
            IF LoadX509KeyPair(auth.CertFile, auth.KeyFile) # NoError
            THEN [req |-> req, client |-> client,
                  err |-> <<"failed to load client certificate: ">>
                          \o LoadX509KeyPair(auth.CertFile, auth.KeyFile)]
            ELSE [req |-> req,
                  client |-> [Certificates |-> <<[cert |-> auth.CertFile,
                                                  key |-> auth.KeyFile]>>],
                  err |-> NoError]
      [] OTHER -> [req |-> req, client |-> client, err |-> NoError]

\* strings.Join(values, ", ")
RECURSIVE JoinComma(_)
JoinComma(values) ==
    IF values = <<>> THEN <<>>
    ELSE IF Len(values) = 1 THEN values[1]
    ELSE values[1] \o <<", ">> \o JoinComma(Tail(values))

\* TransportFailure without the elapsed time
TransportFailureUntimed(err, duration) ==
    [StatusCode |-> 0, Headers |-> NoHeader, Body |-> "",
     ResponseTime |-> 0, Error |-> err]

\* lines 202-207: the ResponseData of a failed client.Do
TransportFailure(err, duration) ==
    [StatusCode |-> 0, Headers |-> NoHeader, Body |-> "",
     ResponseTime |-> duration, Error |-> err]

\* lines 216-227: the ResponseData of an answered request
Answered(resp, duration) ==
    [StatusCode |-> resp.StatusCode,
     Headers |-> [k \in DOMAIN resp.Header |-> JoinComma(resp.Header[k])],
     Body |-> resp.Body, ResponseTime |-> duration, Error |-> NoError]


(***************************************************************************)
(* The requests, answers and callers of the model                          *)
(***************************************************************************)
\* the longest round trip, in clock ticks
MaxElapsed == 2

Methods == {<<>>, <<"G">>, <<"G", " ">>}

URLs ==
    { <<>>,
      <<"h", ":", "/", "/", "x">>,
      <<"h", ":", "/", "/", "x", "/", "p", "?", "k", "=", "1">>,
      <<"h", ":", "/", "/", "x", "?", "k", "=", "%", "3", "1", "&", "m">>,
      <<"h", ":", "/", "/", "x", "?", "k", "=", "%", "z", "z">>,
      <<"H", ":", "/", "/", "x", ":", "1", "?">>,
      <<"x">>,
      <<":", "x">>,
      <<"h", ":", "x">>,
      <<"/", "/", "x">>,
      <<"h", ":", "/", "/", "/", "p">>,
      <<"h", ":", "/", "/", "x", " ", "x">> }

Auths ==
    {ZeroAuth, AuthData(NoAuth, "", "", "", "", ""),
     AuthData(NoAuth, "user", "pw", "key1", "gone.pem", "gone.pem"),
     AuthData("Basic", "user", "pw", "", "", ""),
     AuthData("token", "", "", "key1", "", "")}
    \cup {AuthData(BasicAuth, u, p, "", "", "") : u \in {"", "user"}, p \in {"", "pw"}}
    \cup {AuthData(APIKeyAuth, "", "", k, "", "") : k \in {"", "key1"}}
    \cup {AuthData(MutualTLSAuth, "", "", "", c, k) :
            c \in {"", "cert.pem", "junk.pem", "gone.pem", "hosts/c.pem"},
            k \in {"", "key.pem", "junk.pem", "gone.pem", "hosts/k.pem"}}

\* map[string]string of headers; a value is the sequence of its pieces
HeaderMaps ==
    { [k \in {} |-> <<>>],
      [k \in {"content-type"} |-> <<"json">>],
      [k \in {"Authorization"} |-> <<"Bearer ", "old">>],
      [k \in {"authorization", "Authorization"} |->
          IF k = "authorization" THEN <<"Bearer ", "old">> ELSE <<"Token ", "t">>] }

\* map[string]string of query parameters
ParamMaps ==
    { [k \in {} |-> <<>>],
      [k \in {<<"k">>} |-> <<"2">>],
      [k \in {<<"m">>, <<"p">>} |-> IF k = <<"m">> THEN <<"1", "=", "2">> ELSE <<>>] }

Bodies == {"", "data"}

Requests ==
    [Method : Methods, URL : URLs, Headers : HeaderMaps, QueryParams : ParamMaps,
     Body : Bodies, Timestamp : {0}, Auth : Auths]

\* what a server can answer
Responses ==
    { [StatusCode |-> 200, Header |-> [k \in {"X-Test"} |-> <<<<"test-value">>>>],
       Body |-> "ok"],
      [StatusCode |-> 401, Header |-> NoHeader, Body |-> ""],
      [StatusCode |-> 200,
       Header |-> [k \in {"Set-Cookie"} |-> <<<<"a=1">>, <<"b=2">>>>], Body |-> ""] }

\* client.Do's error when the transport fails
TransportErrors == {<<"Get: ", "dial tcp: connection refused">>}

NoResponse == [StatusCode |-> 0, Header |-> NoHeader, Body |-> ""]

\* the outcomes of client.Do: (resp, err)
DoOutcomes ==
    {[resp |-> NoResponse, err |-> e] : e \in TransportErrors}
    \cup {[resp |-> rr, err |-> NoError] : rr \in Responses}

\* io.ReadAll's error
ReadErrors == {NoError, <<"unexpected EOF">>}

\* Who calls Execute: a direct call of the method, the command line's
\* executeDirectRequest, or the interactive session's executeRequest.
Callers == {"engine", "cli", "tui"}

\* executeDirectRequest builds its request from NewRequestData(): the auth is
\* none and an empty method has become GET
DirectShaped(rq) == rq.Method # <<>> /\ rq.Auth = AuthData(NoAuth, "", "", "", "", "")

\* buildRequestData copies only the credentials of the auth type entered
BuiltShaped(rq) ==
    /\ rq.Auth.Type # BasicAuth => rq.Auth.Username = "" /\ rq.Auth.Password = ""
    /\ rq.Auth.Type # APIKeyAuth => rq.Auth.APIKey = ""
    /\ rq.Auth.Type # MutualTLSAuth => rq.Auth.CertFile = "" /\ rq.Auth.KeyFile = ""

CanCall(c, rq) ==
    CASE c = "cli" -> DirectShaped(rq)
      [] c = "tui" -> BuiltShaped(rq)
      [] OTHER -> TRUE

(***************************************************************************)
(* State                                                                   *)
(***************************************************************************)
VARIABLES
    pc,          \* where the call stands
    caller,      \* who called
    r,           \* the RequestData the call is about
    baseURL,     \* Execute's baseURL
    req,         \* Execute's req, the outbound *http.Request
    client,      \* Execute's client
    httpResp,    \* Execute's resp: <<>> or the one answer of client.Do
    now,         \* the clock
    start,       \* Execute's start
    duration,    \* Execute's duration
    ret,         \* what Execute returned: (resp, err), resp <<>> when nil
    log,         \* the calls made so far that can fail, with their errors
    dispatched,  \* what client.Do was handed, in order
    stdout,      \* what executeDirectRequest has printed, line by line
    exitCode,    \* the status the process ended with, -1 while it runs
    msg          \* the tea.Msg executeRequest returned: <<>> or the one message

\* The history store (package history) and the code that calls it
VARIABLES
    manager,     \* the *Manager: opened or not, m.history and its capacity
    disk,        \* history.json: <<>> when absent, else its one document
    heap,        \* the map objects; a map value is a place in it, 0 is nil
    held,        \* the caller's RequestData: <<>> or the one value
    view,        \* the slice the caller got from GetAll
    expected,    \* the entries handed to Add since the last Clear or open
    touched,     \* the caller wrote through a map or slice since then
    synced       \* the last save succeeded and nothing was written since

historyVars == <<manager, disk, heap, held, view, expected, touched, synced>>

\* no manager, no file, nothing held
HistoryIdle ==
    /\ manager = [open |-> FALSE, history |-> <<>>, cap |-> 0]
    /\ disk = <<>>
    /\ heap = <<>>
    /\ held = <<>>
    /\ view = [len |-> 0, live |-> FALSE]
    /\ expected = <<>>
    /\ touched = FALSE
    /\ synced = FALSE

\* The interactive session (package tui)
VARIABLES
    model,       \* the Model the event loop holds
    objects,     \* the RequestData objects; a *RequestData is a place in it
    cmds,        \* the executeRequest commands in flight
    quit,        \* Update has returned tea.Quit
    edits        \* the keys typed into fields so far

sessionVars == <<model, objects, cmds, quit, edits>>

\* NewRequestData, src/README.md lines 122-131, in the session's terms
NewRequestDataObject ==
    [Method |-> <<"G", "E", "T">>, URL |-> <<>>, Headers |-> [k \in {} |-> <<>>],
     QueryParams |-> [k \in {} |-> <<>>], Body |-> <<>>, Timestamp |-> 0,
     Auth |-> [Type |-> "none", Username |-> "", Password |-> "", APIKey |-> "",
               CertFile |-> "", KeyFile |-> ""]]

\* NewModel, lines 52-104: eleven inputs, the first focused, Method GET and
\* Auth Type none filled in
NewModel ==
    [inputs |-> [i \in 0..10 |->
                   [value |-> CASE i = 1 -> <<"G", "E", "T">>
                                [] i = 2 -> <<"n", "o", "n", "e">>
                                [] OTHER -> <<>>,
                    focus |-> (i = 0)]],
     activeInput |-> 0,
     requestData |-> 1,
     response |-> <<>>,
     err |-> <<>>,
     screen |-> "screenRequest"]

\* the session as tea.NewProgram(NewModel()) starts it
SessionIdle ==
    /\ model = NewModel
    /\ objects = <<<<NewRequestDataObject>>>>
    /\ cmds = <<>>
    /\ quit = FALSE
    /\ edits = 0

\* The command line (package main)
VARIABLES
    args         \* the flags the process was started with

mainVars == <<args>>

\* a command line without flags
NoArgs ==
    [method |-> <<>>, url |-> <<>>, headers |-> <<>>, body |-> "",
     undefined |-> [k \in {} |-> ""]]

MainIdle == args = NoArgs

\* the variables the actions of Execute leave alone
otherVars == <<historyVars, sessionVars, mainVars>>

\* what the callers of Execute make of its result
tailVars == <<stdout, exitCode, msg>>

vars == <<pc, caller, r, baseURL, req, client, httpResp, now, start, duration,
          ret, log, dispatched, tailVars>>

NoReturn == [resp |-> <<>>, err |-> NoError]

\* no call of Execute is under way and nothing has been printed
ExecuteIdle ==
    /\ pc = "idle"
    /\ caller = "engine"
    /\ r = [Method |-> <<>>, URL |-> <<>>, Headers |-> NoHeader,
            QueryParams |-> NoValues, Body |-> "", Timestamp |-> 0, Auth |-> ZeroAuth]
    /\ baseURL = EmptyURL
    /\ req = NoRequest
    /\ client = DefaultClient
    /\ httpResp = <<>>
    /\ now = 0
    /\ start = 0
    /\ duration = 0
    /\ ret = NoReturn
    /\ log = <<>>
    /\ dispatched = <<>>
    /\ stdout = <<>>
    /\ exitCode = -1
    /\ msg = <<>>

Init ==
    /\ ExecuteIdle
    /\ HistoryIdle
    /\ SessionIdle
    /\ MainIdle

Logged(op, err) == Append(log, [op |-> op, err |-> err])

\* return resp, err
Return(resp, err) == ret' = [resp |-> resp, err |-> err] /\ pc' = "returned"

\* A caller takes a request and calls: Execute at once, or Validate first.
Call ==
    /\ pc = "idle"
    /\ UNCHANGED <<otherVars, tailVars>>
    /\ \E c \in Callers, rq \in Requests :
          /\ CanCall(c, rq)
          /\ caller' = c
          /\ r' = rq
          /\ pc' = IF c = "engine" THEN "Execute" ELSE "CallerValidate"
    /\ UNCHANGED <<baseURL, req, client, httpResp, now, start, duration, ret, log,
                   dispatched>>

\* one line of output: what it starts with, the text and the number put in
Line(kind, text, num) == [kind |-> kind, text |-> text, num |-> num]

\* a tea.Msg that is an error, and one that is a *ResponseData
ErrorMsg(err) == [kind |-> "error", err |-> err, resp |-> <<>>]

ResponseMsg(resp) == [kind |-> "response", err |-> NoError, resp |-> <<resp>>]

\* executeDirectRequest (part_003, lines 59-63) and executeRequest (model.go,
\* lines 244-247) validate before they call Execute and do not call it when
\* validation fails: the one prints the error and exits, the other returns it
CallerValidate ==
    /\ pc = "CallerValidate"
    /\ UNCHANGED otherVars
    /\ log' = Logged("Validate", Validate(r))
    /\ IF Validate(r) = NoError
       THEN pc' = "Execute" /\ UNCHANGED tailVars
       ELSE /\ pc' = "rejected"
            /\ IF caller = "cli"
               THEN /\ stdout' = Append(stdout, Line("Error: ", Validate(r), 0))
                    /\ exitCode' = 1
                    /\ UNCHANGED msg
               ELSE /\ msg' = <<ErrorMsg(<<"invalid request: ">> \o Validate(r))>>
                    /\ UNCHANGED <<stdout, exitCode>>
    /\ UNCHANGED <<caller, r, baseURL, req, client, httpResp, now, start, duration,
                   ret, dispatched>>

\* ExecuteValidate with the result of Validate ignored
ExecuteValidateUnchecked ==
    /\ pc = "Execute"
    /\ UNCHANGED <<otherVars, tailVars>>
    /\ log' = Logged("Validate", Validate(r))
    /\ pc' = "BuildURL"
    /\ UNCHANGED <<caller, r, baseURL, req, client, httpResp, now, start, duration,
                   ret, dispatched>>

\* Execute, lines 135-138
ExecuteValidate ==
    /\ pc = "Execute"
    /\ UNCHANGED <<otherVars, tailVars>>
    /\ log' = Logged("Validate", Validate(r))
    /\ IF Validate(r) # NoError
       THEN Return(<<>>, Validate(r))
       ELSE pc' = "BuildURL" /\ UNCHANGED ret
    /\ UNCHANGED <<caller, r, baseURL, req, client, httpResp, now, start, duration,
                   dispatched>>

\* Execute, lines 140-151
ExecuteBuildURL ==
    /\ pc = "BuildURL"
    /\ UNCHANGED <<otherVars, tailVars>>
    /\ IF urlParse(r.URL).err # Nil
       THEN Return(<<>>, <<"parse: ", urlParse(r.URL).err>>) /\ UNCHANGED baseURL
       ELSE /\ baseURL' = MergeQuery(urlParse(r.URL), r.QueryParams)
            /\ pc' = "NewRequest"
            /\ UNCHANGED ret
    /\ UNCHANGED <<caller, r, req, client, httpResp, now, start, duration, log,
                   dispatched>>

\* Execute, lines 153-157
ExecuteNewRequest ==
    /\ pc = "NewRequest"
    /\ UNCHANGED <<otherVars, tailVars>>
    /\ LET made == NewRequest(r.Method, urlString(baseURL), r.Body) IN
       IF made.err # NoError
       THEN Return(<<>>, made.err) /\ UNCHANGED req
       ELSE req' = made.req /\ pc' = "AddHeaders" /\ UNCHANGED ret
    /\ UNCHANGED <<caller, r, baseURL, client, httpResp, now, start, duration, log,
                   dispatched>>

\* Execute, lines 159-162
ExecuteAddHeaders ==
    /\ pc = "AddHeaders"
    /\ UNCHANGED <<otherVars, tailVars>>
    /\ \E order \in RangeOrders(DOMAIN r.Headers) :
          req' = [req EXCEPT !.Header = AddHeaders(@, order, r.Headers)]
    /\ pc' = "ApplyAuth"
    /\ UNCHANGED <<caller, r, baseURL, client, httpResp, now, start, duration, ret,
                   log, dispatched>>

\* Execute, lines 164-195
ExecuteApplyAuth ==
    /\ pc = "ApplyAuth"
    /\ UNCHANGED <<otherVars, tailVars>>
    /\ LET applied == ApplyAuth(req, client, r.Auth) IN
       /\ log' = IF r.Auth.Type = MutualTLSAuth
                 THEN Logged("LoadX509KeyPair",
                             LoadX509KeyPair(r.Auth.CertFile, r.Auth.KeyFile))
                 ELSE log
       /\ IF applied.err # NoError
          THEN Return(<<>>, applied.err) /\ UNCHANGED <<req, client>>
          ELSE /\ req' = applied.req
               /\ client' = applied.client
               /\ pc' = "Do"
               /\ UNCHANGED ret
    /\ UNCHANGED <<caller, r, baseURL, httpResp, now, start, duration, dispatched>>

\* Execute, lines 197-207: the clock is read, the request is handed to the
\* client, the clock is read again; a transport error is returned in the
\* ResponseData
ExecuteDo ==
    /\ pc = "Do"
    /\ UNCHANGED <<otherVars, tailVars>>
    /\ \E elapsed \in 0..MaxElapsed, outcome \in DoOutcomes :
          /\ start' = now
          /\ now' = now + elapsed
          /\ duration' = now' - start'
          /\ dispatched' = Append(dispatched,
                                  [Method |-> req.Method, URL |-> urlString(req.URL),
                                   Header |-> req.Header, Body |-> req.Body,
                                   Certificates |-> client.Certificates])
          /\ log' = Logged("Do", outcome.err)
          /\ IF outcome.err # NoError
             THEN Return(<<TransportFailure(outcome.err, duration')>>, NoError)
                  /\ UNCHANGED httpResp
             ELSE httpResp' = <<outcome.resp>> /\ pc' = "ReadBody" /\ UNCHANGED ret
    /\ UNCHANGED <<caller, r, baseURL, req, client>>

\* Execute, lines 208-228
ExecuteReadBody ==
    /\ pc = "ReadBody"
    /\ UNCHANGED <<otherVars, tailVars>>
    /\ \E readErr \in ReadErrors :
          /\ log' = Logged("ReadAll", readErr)
          /\ IF readErr # NoError
             THEN Return(<<>>, readErr)
             ELSE Return(<<Answered(httpResp[1], duration)>>, NoError)
    /\ UNCHANGED <<caller, r, baseURL, req, client, httpResp, now, start, duration,
                   dispatched>>

\* the lines of the report for the headers, in the order of the range
RECURSIVE HeaderLines(_, _)
HeaderLines(order, headers) ==
    IF order = <<>> THEN <<>>
    ELSE <<Line(Head(order), headers[Head(order)], 0)>>
         \o HeaderLines(Tail(order), headers)

\* DirectReport taking no notice of the error the response carries
DirectReportOfAnyResponse ==
    /\ pc = "returned"
    /\ caller = "cli"
    /\ UNCHANGED otherVars
    /\ pc' = "exited"
    /\ IF ret.err # NoError
       THEN /\ stdout' = Append(stdout, Line("Error executing request: ", ret.err, 0))
            /\ exitCode' = 1
       ELSE /\ \E order \in RangeOrders(DOMAIN ret.resp[1].Headers) :
                  stdout' = stdout
                     \o <<Line("Status: ", <<>>, ret.resp[1].StatusCode),
                          Line("Time: ", <<>>, ret.resp[1].ResponseTime)>>
                     \o (IF order # <<>> THEN <<Line("Headers:", <<>>, 0)>> ELSE <<>>)
                     \o HeaderLines(order, ret.resp[1].Headers)
                     \o (IF ret.resp[1].Body # ""
                         THEN <<Line("Body:", <<ret.resp[1].Body>>, 0)>> ELSE <<>>)
            /\ exitCode' = 0
    /\ UNCHANGED <<caller, r, baseURL, req, client, httpResp, now, start, duration,
                   ret, log, dispatched, msg>>

\* executeDirectRequest, part_003 lines 66-91: what it prints of the result
\* of Execute and the status the process ends with
DirectReport ==
    /\ pc = "returned"
    /\ caller = "cli"
    /\ UNCHANGED otherVars
    /\ pc' = "exited"
    /\ IF ret.err # NoError
       THEN /\ stdout' = Append(stdout, Line("Error executing request: ", ret.err, 0))
            /\ exitCode' = 1
       ELSE IF ret.resp[1].Error # NoError
       THEN /\ stdout' = Append(stdout, Line("Error: ", ret.resp[1].Error, 0))
            /\ exitCode' = 1
       ELSE /\ \E order \in RangeOrders(DOMAIN ret.resp[1].Headers) :
                  stdout' = stdout
                     \o <<Line("Status: ", <<>>, ret.resp[1].StatusCode),
                          Line("Time: ", <<>>, ret.resp[1].ResponseTime)>>
                     \o (IF order # <<>> THEN <<Line("Headers:", <<>>, 0)>> ELSE <<>>)
                     \o HeaderLines(order, ret.resp[1].Headers)
                     \o (IF ret.resp[1].Body # ""
                         THEN <<Line("Body:", <<ret.resp[1].Body>>, 0)>> ELSE <<>>)
            /\ exitCode' = 0
    /\ UNCHANGED <<caller, r, baseURL, req, client, httpResp, now, start, duration,
                   ret, log, dispatched, msg>>

\* executeRequest, model.go lines 249-258: the message made of (resp, err)
executeRequestMsg(rt) ==
    IF rt.err # NoError THEN ErrorMsg(<<"failed to execute request: ">> \o rt.err)
    ELSE IF rt.resp[1].Error # NoError
    THEN ErrorMsg(<<"request error: ">> \o rt.resp[1].Error)
    ELSE ResponseMsg(rt.resp[1])

\* executeRequest returns its message to the event loop
ExecuteRequestReturn ==
    /\ pc = "returned"
    /\ caller = "tui"
    /\ UNCHANGED otherVars
    /\ pc' = "delivered"
    /\ msg' = <<executeRequestMsg(ret)>>
    /\ UNCHANGED <<caller, r, baseURL, req, client, httpResp, now, start, duration,
                   ret, log, dispatched, stdout, exitCode>>

Next ==
    \/ Call
    \/ CallerValidate
    \/ ExecuteValidate
    \/ ExecuteBuildURL
    \/ ExecuteNewRequest
    \/ ExecuteAddHeaders
    \/ ExecuteApplyAuth
    \/ ExecuteDo
    \/ ExecuteReadBody
    \/ DirectReport
    \/ ExecuteRequestReturn

Spec == Init /\ [][Next]_<<vars, otherVars>>


(***************************************************************************)
(* What the specification expects of Validate (its section 4.1)            *)
(***************************************************************************)
\* the rule an error of Validate reports
KindOf(err) ==
    IF err = NoError THEN "ok"
    ELSE CASE err[1] = "method cannot be empty" -> "EmptyMethod"
           [] err[1] = "URL cannot be empty" -> "EmptyURL"
           [] err[1] \in {"invalid URL: ", "invalid URL: must include scheme and host"}
                -> "InvalidURL"
           [] err[1] = "username is required for basic authentication"
                -> "MissingUsername"
           [] err[1] = "password is required for basic authentication"
                -> "MissingPassword"
           [] err[1] = "API key is required for API key authentication"
                -> "MissingAPIKey"
           [] err[1] = "certificate file is required for mutual TLS authentication"
                -> "MissingCertFile"
           [] err[1] = "key file is required for mutual TLS authentication"
                -> "MissingKeyFile"
           [] err[1] = "certificate file does not exist: " -> "CertFileNotFound"
           [] err[1] = "key file does not exist: " -> "KeyFileNotFound"
           [] err[1] = "invalid authentication type: " -> "InvalidAuthType"
           [] OTHER -> "other"

\* rules 1 to 3 hold: the method and the URL are in order
MethodAndURLPass(rq) ==
    /\ rq.Method # <<>>
    /\ rq.URL # <<>>
    /\ urlParse(rq.URL).err = Nil
    /\ urlParse(rq.URL).Scheme # <<>>
    /\ urlParse(rq.URL).Host # <<>>

RecognizedTags == {"none", "basic", "apikey", "mtls"}

\* rule 4: the first auth rule that fails, "ok" when none does
ExpectedAuthFailure(a) ==
    CASE a.Type = "basic" ->
            IF a.Username = "" THEN "MissingUsername"
            ELSE IF a.Password = "" THEN "MissingPassword" ELSE "ok"
      [] a.Type = "apikey" -> IF a.APIKey = "" THEN "MissingAPIKey" ELSE "ok"
      [] a.Type = "mtls" ->
            IF a.CertFile = "" THEN "MissingCertFile"
            ELSE IF a.KeyFile = "" THEN "MissingKeyFile"
            ELSE IF ~FileExists(a.CertFile) THEN "CertFileNotFound"
            ELSE IF ~FileExists(a.KeyFile) THEN "KeyFileNotFound" ELSE "ok"
      [] a.Type = "none" -> "ok"
      [] OTHER -> "InvalidAuthType"

\* the first rule that fails, in the order 1, 2, 3, 4
ExpectedFailure(rq) ==
    IF rq.Method = <<>> THEN "EmptyMethod"
    ELSE IF rq.URL = <<>> THEN "EmptyURL"
    ELSE IF ~MethodAndURLPass(rq) THEN "InvalidURL"
    ELSE ExpectedAuthFailure(rq.Auth)

\* the results of the Validate calls made so far
ValidateResults == {log[i].err : i \in {j \in DOMAIN log : log[j].op = "Validate"}}

\* the places of the log where client.Do was called
DoCalls == {i \in DOMAIN log : log[i].op = "Do"}

\* Execute has returned; its caller may have gone on to report the result
Returned == pc \in {"returned", "exited", "delivered"}

(***************************************************************************)
(* C1  Validate returns the error of the first failing rule, in the order  *)
(* empty method, empty URL, invalid URL, auth rules, and returns no error  *)
(* exactly when no rule fails.                                             *)
(***************************************************************************)
C1_FirstFailingRuleWins ==
    \A err \in ValidateResults : KindOf(err) = ExpectedFailure(r)

\* C1 outside the requests whose certificate or key path runs through a
\* regular file (the case C7 is about): there the order holds.
C1_HoldsWhereStatAnswers ==
    (r.Auth.Type = MutualTLSAuth =>
        /\ osStat(r.Auth.CertFile) \in {Nil, "ENOENT"}
        /\ osStat(r.Auth.KeyFile) \in {Nil, "ENOENT"})
    => \A err \in ValidateResults : KindOf(err) = ExpectedFailure(r)

(***************************************************************************)
(* C2  A dispatch happens only after Validate returned no error for the    *)
(* request; when Validate fails, Execute returns that error, no response,  *)
(* and nothing is dispatched.                                              *)
(***************************************************************************)
C2_NoDispatchWithoutValidation ==
    /\ \A i \in DoCalls :
          /\ \E j \in 1..(i - 1) : log[j].op = "Validate"
          /\ \A j \in 1..(i - 1) : log[j].op = "Validate" => log[j].err = NoError
          /\ MethodAndURLPass(r)
    /\ Len(dispatched) = Cardinality(DoCalls)
    /\ \A d \in {dispatched[i] : i \in DOMAIN dispatched} :
          d.Method = r.Method /\ d.Body = r.Body
    /\ \A err \in ValidateResults :
          err # NoError =>
             /\ dispatched = <<>>
             /\ pc \in {"returned", "rejected"}
             /\ Returned => ret = [resp |-> <<>>, err |-> err]

C2_Witness ==
    /\ Returned /\ caller = "tui" /\ dispatched # <<>>
    /\ log[1] = [op |-> "Validate", err |-> NoError]
    /\ log[2] = [op |-> "Validate", err |-> NoError]

(***************************************************************************)
(* C3  A transport failure of a valid request comes back as a response     *)
(* (not an error) with a non-empty transportError, status 0 and the        *)
(* elapsed time; in every response returned, a transportError implies      *)
(* status 0.                                                               *)
(***************************************************************************)
C3_TransportFailureIsAResponse ==
    /\ \A i \in DoCalls :
          (log[i].err # NoError /\ Returned) =>
             /\ ret.err = NoError
             /\ Len(ret.resp) = 1
             /\ ret.resp[1].Error = log[i].err
             /\ ret.resp[1].Error # <<>>
             /\ ret.resp[1].StatusCode = 0
             /\ ret.resp[1].ResponseTime = now - start
    /\ \A i \in DOMAIN ret.resp :
          ret.resp[i].Error # <<>> => ret.resp[i].StatusCode = 0

C3_Witness ==
    /\ Returned
    /\ \E i \in DoCalls : log[i].err # NoError
    /\ now - start = MaxElapsed
    /\ Len(ret.resp) = 1

(***************************************************************************)
(* C4  Every failure after dispatch has started (the round trip, reading   *)
(* the response body) is folded into the returned response; Execute        *)
(* returns an error only for a failure before dispatch.                    *)
(***************************************************************************)
C4_NoHardErrorAfterDispatch ==
    (Returned /\ DoCalls # {}) => (ret.err = NoError /\ Len(ret.resp) = 1)

(***************************************************************************)
(* C5  A request whose auth was never set (the zero AuthData) is treated   *)
(* as auth none: with a non-empty method and a URL with scheme and host,   *)
(* Validate returns no error and Execute dispatches it.                    *)
(***************************************************************************)
C5_ZeroAuthIsNone ==
    (r.Auth = ZeroAuth /\ MethodAndURLPass(r)) =>
        /\ \A err \in ValidateResults : err = NoError
        /\ (Returned /\ validMethod(r.Method)) => dispatched # <<>>

C7_MutualTLSFilesChecked ==
    (r.Auth.Type = "mtls" /\ MethodAndURLPass(r)) =>
        \A err \in ValidateResults :
            /\ KindOf(err) = ExpectedAuthFailure(r.Auth)
            /\ err = NoError => FileExists(r.Auth.CertFile) /\ FileExists(r.Auth.KeyFile)

\* What does hold of the mtls checks: the order of the four checks, with
\* "exists" read as "os.Stat does not answer ENOENT".
C7_OrderOfChecks ==
    (r.Auth.Type = "mtls" /\ MethodAndURLPass(r)) =>
        \A err \in ValidateResults :
            KindOf(err) =
                IF r.Auth.CertFile = "" THEN "MissingCertFile"
                ELSE IF r.Auth.KeyFile = "" THEN "MissingKeyFile"
                ELSE IF osStat(r.Auth.CertFile) = "ENOENT" THEN "CertFileNotFound"
                ELSE IF osStat(r.Auth.KeyFile) = "ENOENT" THEN "KeyFileNotFound"
                ELSE "ok"

(***************************************************************************)
(* C8  For auth mtls, when validation passes and the certificate/key pair  *)
(* does not load, Execute returns the certificate-load error, no response, *)
(* and nothing is dispatched; when it loads, the client certificate is on  *)
(* the transport before the dispatch.                                      *)
(***************************************************************************)
C8_CertificateLoadedBeforeDispatch ==
    /\ \A i \in DOMAIN log :
          (log[i].op = "LoadX509KeyPair" /\ log[i].err # NoError) =>
             /\ Returned
             /\ ret = [resp |-> <<>>,
                       err |-> <<"failed to load client certificate: ">> \o log[i].err]
             /\ dispatched = <<>>
             /\ DoCalls = {}
    /\ r.Auth.Type = "mtls" =>
          /\ \A i \in DoCalls :
                \E j \in 1..(i - 1) : log[j] = [op |-> "LoadX509KeyPair", err |-> NoError]
          /\ \A i \in DOMAIN dispatched :
                dispatched[i].Certificates =
                    <<[cert |-> r.Auth.CertFile, key |-> r.Auth.KeyFile]>>
    /\ (r.Auth.Type = "mtls" /\ (pc \in {"Do", "ReadBody"} \/ dispatched # <<>>)) =>
          /\ r.Auth.CertFile = "cert.pem" /\ r.Auth.KeyFile = "key.pem"
          /\ client.Certificates = <<[cert |-> "cert.pem", key |-> "key.pem"]>>

C8_Witness ==
    /\ Returned
    /\ r.Auth.Type = "mtls"
    /\ r.Auth.CertFile = "junk.pem"
    /\ ValidateResults = {NoError}
    /\ \E i \in DOMAIN log : log[i].op = "LoadX509KeyPair" /\ log[i].err # NoError
    /\ ret.err # NoError

(***************************************************************************)
(* C9  The query string of the dispatched URL is the additive merge of     *)
(* the URL's own query and queryParams: every pair of the URL is still     *)
(* there, every queryParams pair is there, and a key in both has both      *)
(* values.                                                                 *)
(***************************************************************************)
\* a key or value as a server reads it; text that does not unescape is kept
\* as written
Unescaped(s) == IF QueryUnescape(s).ok THEN QueryUnescape(s).val ELSE s

\* the key/value pairs written in a query string, one per non-empty segment
RECURSIVE PairsOfSegs(_)
PairsOfSegs(segs) ==
    IF segs = <<>> THEN <<>>
    ELSE (IF Head(segs) = <<>> THEN <<>>
          ELSE <<[key |-> Unescaped(Cut(Head(segs), "=").before),
                  value |-> Unescaped(Cut(Head(segs), "=").after)]>>)
         \o PairsOfSegs(Tail(segs))

PairsOf(rawQuery) == PairsOfSegs(Split(rawQuery, "&"))

PairCount(pairs, p) == Cardinality({i \in DOMAIN pairs : pairs[i] = p})

ParamPairs(queryParams) ==
    {[key |-> k, value |-> queryParams[k]] : k \in DOMAIN queryParams}

\* the pairs of the dispatched URL are those of the URL plus those of queryParams
MergedAdditively(sentURL, rq) ==
    LET sent == PairsOf(urlParse(sentURL).RawQuery)
        had == PairsOf(urlParse(rq.URL).RawQuery)
        added == ParamPairs(rq.QueryParams)
    IN \A p \in {had[i] : i \in DOMAIN had} \cup added :
          PairCount(sent, p) = PairCount(had, p) + (IF p \in added THEN 1 ELSE 0)

C9_QueryMergeIsAdditive ==
    \A i \in DOMAIN dispatched : MergedAdditively(dispatched[i].URL, r)

\* What does hold: the merge is additive when every pair of the URL's own
\* query unescapes.
C9_MergeOfWellFormedQuery ==
    (\A seg \in {Split(urlParse(r.URL).RawQuery, "&")[i] :
                    i \in DOMAIN Split(urlParse(r.URL).RawQuery, "&")} :
        EscapesOK(seg))
    => \A i \in DOMAIN dispatched : MergedAdditively(dispatched[i].URL, r)

(***************************************************************************)
(* C10  A dispatched request with auth apikey carries "Bearer <key>" under *)
(* Authorization; for none, basic and mtls the engine adds no Bearer       *)
(* header: none and mtls send the user's headers as they are, basic sets   *)
(* the basic credentials of username and password.                         *)
(***************************************************************************)
\* the user's header names that are sent under the canonical name ck
UserKeys(ck) == {k \in DOMAIN r.Headers : CanonicalHeaderKey(k) = ck}

\* the values sent under ck, from position `from` on, are the user's: one
\* for each of the user's names for ck
UserValuesAt(h, ck, from) ==
    /\ Len(h[ck]) - (from - 1) = Cardinality(UserKeys(ck))
    /\ \A k \in UserKeys(ck) : \E j \in from..Len(h[ck]) : h[ck][j] = r.Headers[k]

C11_BearerIsEffective ==
    \A i \in DOMAIN dispatched :
       (r.Auth.Type = "apikey" /\ UserKeys("Authorization") # {}) =>
          HeaderGet(dispatched[i].Header, "Authorization")
             = <<"Bearer ", r.Auth.APIKey>>

\* What does hold: the bearer value is sent, as the last of the values
C11_BearerIsLastValue ==
    \A i \in DOMAIN dispatched :
       (r.Auth.Type = "apikey" /\ UserKeys("Authorization") # {}) =>
          LET vs == dispatched[i].Header["Authorization"] IN
          /\ Len(vs) = Cardinality(UserKeys("Authorization")) + 1
          /\ vs[Len(vs)] = <<"Bearer ", r.Auth.APIKey>>
          /\ HeaderGet(dispatched[i].Header, "Authorization") \in
                {r.Headers[k] : k \in UserKeys("Authorization")}


(***************************************************************************)
(* JSON (encoding/json), as the history store uses it                      *)
(*                                                                         *)
(* The strings of this part are sequences of bytes; "xFF" stands for a     *)
(* byte that is not valid UTF-8 and "uFFFD" for the rune U+FFFD.  A JSON   *)
(* document is the array of its objects; a JSON object of a map is <<>>    *)
(* for null and <<pairs>> otherwise.  The heap is a sequence of places, a  *)
(* place <<>> when free and <<the map>> when it holds one.                 *)
(***************************************************************************)
\* json.Marshal of a string: invalid UTF-8 is replaced by U+FFFD
jsonString(s) == [i \in 1..Len(s) |-> IF s[i] = "xFF" THEN "uFFFD" ELSE s[i]]

\* the members of a map, in the order of its sorted keys
RECURSIVE jsonPairs(_, _)
jsonPairs(keys, mp) ==
    IF keys = <<>> THEN <<>>
    ELSE <<[key |-> jsonString(Head(keys)), value |-> jsonString(mp[Head(keys)])]>>
         \o jsonPairs(Tail(keys), mp)

\* json.Marshal of a map[string]string: null for the nil map
jsonMap(h, ref) ==
    IF ref = 0 THEN <<>> ELSE <<jsonPairs(SortKeys(DOMAIN h[ref][1]), h[ref][1])>>

\* json.Marshal of AuthData: every field but type is omitempty
jsonAuth(a) ==
    LET fields == [username |-> a.Username, password |-> a.Password,
                   api_key |-> a.APIKey, cert_file |-> a.CertFile,
                   key_file |-> a.KeyFile]
    IN [f \in {"type"} \cup {g \in DOMAIN fields : fields[g] # ""} |->
           IF f = "type" THEN a.Type ELSE fields[f]]

\* json.Marshal of a RequestData; the monotonic clock reading of the
\* timestamp is not written
marshalEntry(h, e) ==
    [method |-> jsonString(e.Method), url |-> jsonString(e.URL),
     headers |-> jsonMap(h, e.Headers), query_params |-> jsonMap(h, e.QueryParams),
     body |-> jsonString(e.Body), timestamp |-> e.Timestamp.year,
     auth |-> jsonAuth(e.Auth)]

\* json.MarshalIndent(m.history, "", "  "): (data, err); Time.MarshalJSON
\* fails for a year outside [0,9999]
MarshalIndent(h, history) ==
    IF \E i \in DOMAIN history : history[i].Timestamp.year \notin 0..9999
    THEN [data |-> <<>>,
          err |-> <<"json: error calling MarshalJSON for type time.Time: ",
                    "year outside of range [0,9999]">>]
    ELSE [data |-> [i \in DOMAIN history |-> marshalEntry(h, history[i])],
          err |-> NoError]

\* the map a JSON object is decoded to: a later member replaces an earlier
\* one of the same key
unmarshalMap(pairs) ==
    [k \in {pairs[i].key : i \in DOMAIN pairs} |->
        pairs[CHOOSE i \in DOMAIN pairs :
                 pairs[i].key = k /\ \A j \in DOMAIN pairs : pairs[j].key = k => j <= i].value]

\* json.Unmarshal of AuthData: a field that is absent stays ""
unmarshalAuth(o) ==
    LET get(f) == IF f \in DOMAIN o THEN o[f] ELSE "" IN
    [Type |-> get("type"), Username |-> get("username"), Password |-> get("password"),
     APIKey |-> get("api_key"), CertFile |-> get("cert_file"), KeyFile |-> get("key_file")]

\* json.Unmarshal of the array into a slice: the maps are made anew, null
\* leaves a map nil: (history, heap)
RECURSIVE unmarshalItems(_, _, _)
unmarshalItems(items, h, acc) ==
    IF items = <<>> THEN [history |-> acc, heap |-> h]
    ELSE LET o == Head(items)
             h1 == IF o.headers = <<>> THEN h
                   ELSE Append(h, <<unmarshalMap(o.headers[1])>>)
             hdr == IF o.headers = <<>> THEN 0 ELSE Len(h1)
             h2 == IF o.query_params = <<>> THEN h1
                   ELSE Append(h1, <<unmarshalMap(o.query_params[1])>>)
             qp == IF o.query_params = <<>> THEN 0 ELSE Len(h2)
         IN unmarshalItems(Tail(items), h2,
               Append(acc, [Method |-> o.method, URL |-> o.url, Headers |-> hdr,
                            QueryParams |-> qp, Body |-> o.body,
                            Timestamp |-> [year |-> o.timestamp, mono |-> FALSE],
                            Auth |-> unmarshalAuth(o.auth)]))

\* what is read of a file that was not written to its end
Truncated == [ok |-> FALSE, items |-> <<>>]

\* json.Unmarshal(data, &m.history): (history, heap, err)
Unmarshal(data, h) ==
    IF ~data.ok
    THEN [history |-> <<>>, heap |-> h, err |-> <<"unexpected end of JSON input">>]
    ELSE [history |-> unmarshalItems(data.items, h, <<>>).history,
          heap |-> unmarshalItems(data.items, h, <<>>).heap,
          err |-> NoError]


(***************************************************************************)
(* The history store: Manager, and a caller that keeps what it handed in   *)
(* and what it got back                                                    *)
(***************************************************************************)
\* the most entries the store is given between two Clear
MaxEntries == 2

\* the most map objects alive in one process
MaxMaps == 4

\* what os.WriteFile can come to: written, not opened, opened and cut short
WriteOutcomes == {"ok", "EACCES", "ENOSPC"}

\* the requests a caller builds: a map is <<>> when nil, else <<its content>>
EntryShapes ==
    { [Method |-> <<"G">>, URL |-> <<"h", ":", "/", "/", "x", "?", "k", "=", "1">>,
       Headers |-> <<[k \in {<<"k">>} |-> <<"1">>]>>,
       QueryParams |-> <<[k \in {} |-> <<>>]>>,
       Body |-> <<"x">>, Timestamp |-> [year |-> 2024, mono |-> TRUE],
       Auth |-> AuthData(BasicAuth, "user", "pw", "", "", "")],
      [Method |-> <<"G">>, URL |-> <<"h", ":", "/", "/", "x">>,
       Headers |-> <<>>, QueryParams |-> <<>>,
       Body |-> <<"x", "xFF">>, Timestamp |-> [year |-> 2024, mono |-> FALSE],
       Auth |-> ZeroAuth] }

\* make(map[string]string), or a map literal: the lowest free place
alloc(h, content) ==
    LET free == {i \in DOMAIN h : h[i] = <<>>} IN
    IF free = {} THEN [heap |-> Append(h, <<content>>), ref |-> Len(h) + 1]
    ELSE LET i == CHOOSE f \in free : \A g \in free : f <= g
         IN [heap |-> [h EXCEPT ![i] = <<content>>], ref |-> i]

\* the maps a slice of RequestData and a held RequestData refer to
Refs(history, hd) ==
    UNION {{history[i].Headers, history[i].QueryParams} : i \in DOMAIN history}
    \cup UNION {{hd[i].Headers, hd[i].QueryParams} : i \in DOMAIN hd}

RECURSIVE TrimFree(_)
TrimFree(h) ==
    IF h # <<>> /\ h[Len(h)] = <<>> THEN TrimFree(SubSeq(h, 1, Len(h) - 1)) ELSE h

\* garbage collection: a map nothing refers to is gone
Collect(h, refs) == TrimFree([i \in DOMAIN h |-> IF i \in refs THEN h[i] ELSE <<>>])

\* the capacity of the array append moves to when the slice is full
appendCap(cap) == IF cap = 0 THEN 1 ELSE 2 * cap

\* the capacities the decoder can leave a slice of n elements with: it
\* grows by doubling, or in older releases starts at 4
loadCaps(n) ==
    IF n = 0 THEN {0}
    ELSE {IF n = 1 THEN 1 ELSE IF n = 2 THEN 2 ELSE 4, 4}

\* a RequestData with its maps in place of the references to them
Deep(h, e) ==
    [e EXCEPT !.Headers = IF @ = 0 THEN <<>> ELSE h[@],
              !.QueryParams = IF @ = 0 THEN <<>> ELSE h[@]]

DeepAll(h, history) == [i \in DOMAIN history |-> Deep(h, history[i])]

\* load, lines 62-70: (history, heap, err); the history is m.history, made
\* empty by NewManager, when the file cannot be read
load(file) ==
    IF file = <<>>
    THEN [history |-> <<>>, heap |-> <<>>, err |-> <<"ENOENT">>]
    ELSE Unmarshal(file[1], <<>>)

\* save, lines 72-80: (the file afterwards, err)
save(h, history, file, outcome) ==
    LET made == MarshalIndent(h, history) IN
    IF made.err # NoError
    THEN [disk |-> file, err |-> <<"failed to marshal history: ">> \o made.err]
    ELSE CASE outcome = "ok" ->
                 [disk |-> <<[ok |-> TRUE, items |-> made.data]>>, err |-> NoError]
           [] outcome = "EACCES" ->
                 [disk |-> file, err |-> <<"open: permission denied">>]
           [] OTHER ->
                 [disk |-> <<Truncated>>, err |-> <<"write: no space left on device">>]

NoManager == [open |-> FALSE, history |-> <<>>, cap |-> 0]

NoView == [len |-> 0, live |-> FALSE]

\* NewManager, lines 18-43, in a process that starts: nothing of the
\* process before is left but the file
NewManager ==
    /\ \E envErr \in {Nil, "$HOME is not defined"} :
          LET got == load(disk) IN
          IF envErr # Nil \/ (got.err # NoError /\ got.err # <<"ENOENT">>)
          THEN /\ manager' = NoManager
               /\ heap' = <<>>
               /\ expected' = <<>>
          ELSE /\ \E c \in loadCaps(Len(got.history)) :
                     manager' = [open |-> TRUE, history |-> got.history, cap |-> c]
               /\ heap' = got.heap
               /\ expected' = DeepAll(got.heap, got.history)
    /\ held' = <<>>
    /\ view' = NoView
    /\ touched' = FALSE
    /\ synced' = FALSE
    /\ UNCHANGED <<disk, vars, sessionVars, mainVars>>

\* the caller builds a RequestData, its maps made anew; the one it held
\* before is dropped
CallerBuild ==
    /\ \E shape \in EntryShapes :
          LET h0 == Collect(heap, Refs(manager.history, <<>>))
              a1 == IF shape.Headers = <<>> THEN [heap |-> h0, ref |-> 0]
                    ELSE alloc(h0, shape.Headers[1])
              a2 == IF shape.QueryParams = <<>> THEN [heap |-> a1.heap, ref |-> 0]
                    ELSE alloc(a1.heap, shape.QueryParams[1])
          IN /\ Len(a2.heap) <= MaxMaps
             /\ heap' = a2.heap
             /\ held' = <<[shape EXCEPT !.Headers = a1.ref, !.QueryParams = a2.ref]>>
    /\ UNCHANGED <<manager, disk, view, expected, touched, synced, vars, sessionVars, mainVars>>

\* some entry of the store holds the map
Referenced(ref) ==
    \E i \in DOMAIN manager.history :
        ref \in {manager.history[i].Headers, manager.history[i].QueryParams}

\* Add putting the new entry first
AddNewestFirst ==
    /\ manager.open
    /\ held # <<>>
    /\ Len(manager.history) < MaxEntries
    /\ LET full == Len(manager.history) = manager.cap
           history == <<held[1]>> \o manager.history
       IN \E outcome \in WriteOutcomes :
             /\ manager' = [manager EXCEPT !.history = history,
                                           !.cap = IF full THEN appendCap(@) ELSE @]
             /\ view' = [view EXCEPT !.live = @ /\ ~full]
             /\ disk' = save(heap, history, disk, outcome).disk
             /\ synced' = (save(heap, history, disk, outcome).err = NoError)
             /\ expected' = Append(expected, Deep(heap, held[1]))
    /\ UNCHANGED <<heap, held, touched, vars, sessionVars, mainVars>>

\* Add, lines 45-49: append (into the array when it has room, else into a
\* larger one the elements are copied to), then save
Add ==
    /\ manager.open
    /\ held # <<>>
    /\ Len(manager.history) < MaxEntries
    /\ LET full == Len(manager.history) = manager.cap
           history == Append(manager.history, held[1])
       IN \E outcome \in WriteOutcomes :
             /\ manager' = [manager EXCEPT !.history = history,
                                           !.cap = IF full THEN appendCap(@) ELSE @]
             /\ view' = [view EXCEPT !.live = @ /\ ~full]
             /\ disk' = save(heap, history, disk, outcome).disk
             /\ synced' = (save(heap, history, disk, outcome).err = NoError)
             /\ expected' = Append(expected, Deep(heap, held[1]))
    /\ UNCHANGED <<heap, held, touched, vars, sessionVars, mainVars>>

\* GetAll, lines 51-54: the slice itself, on the array of the store
GetAll ==
    /\ manager.open
    /\ view' = [len |-> Len(manager.history), live |-> TRUE]
    /\ UNCHANGED <<manager, disk, heap, held, expected, touched, synced, vars, sessionVars, mainVars>>

\* Clear, lines 56-60: an empty slice of its own, then save
Clear ==
    /\ manager.open
    /\ \E outcome \in WriteOutcomes :
          /\ manager' = [manager EXCEPT !.history = <<>>, !.cap = 0]
          /\ disk' = save(heap, <<>>, disk, outcome).disk
          /\ synced' = (save(heap, <<>>, disk, outcome).err = NoError)
    /\ heap' = Collect(heap, Refs(<<>>, held))
    /\ view' = [view EXCEPT !.live = FALSE]
    /\ expected' = <<>>
    /\ touched' = FALSE
    /\ UNCHANGED <<held, vars, sessionVars, mainVars>>

\* the caller assigns to a field of the RequestData it holds
CallerSetsField ==
    /\ held # <<>>
    /\ held[1].Method # <<"P">>
    /\ held' = <<[held[1] EXCEPT !.Method = <<"P">>]>>
    /\ UNCHANGED <<manager, disk, heap, view, expected, touched, synced, vars, sessionVars, mainVars>>

\* the caller assigns to a key of the Headers of the RequestData it holds
CallerSetsHeader ==
    /\ held # <<>>
    /\ held[1].Headers # 0
    /\ LET ref == held[1].Headers
           mp == heap[ref][1]
       IN \E k \in {<<"k">>} :
             /\ IF k \in DOMAIN mp THEN mp[k] # <<"2">> ELSE TRUE
             /\ heap' = [heap EXCEPT ![ref] =
                           <<[j \in DOMAIN mp \cup {k} |-> IF j = k THEN <<"2">> ELSE mp[j]]>>]
             /\ touched' = (touched \/ Referenced(ref))
             /\ synced' = (synced /\ ~Referenced(ref))
    /\ UNCHANGED <<manager, disk, held, view, expected, vars, sessionVars, mainVars>>

\* the caller assigns to a field of an element of the slice GetAll gave it;
\* the element is the store's while the store is on the same array
CallerWritesView ==
    /\ \E i \in 1..view.len :
          IF view.live
          THEN /\ manager.history[i].Method # <<"P">>
               /\ manager' = [manager EXCEPT !.history[i].Method = <<"P">>]
               /\ touched' = TRUE
               /\ synced' = FALSE
               /\ view' = view
          ELSE /\ view' = [view EXCEPT !.len = 0]
               /\ UNCHANGED <<manager, touched, synced>>
    /\ UNCHANGED <<disk, heap, held, expected, vars, sessionVars, mainVars>>

HistoryNext ==
    \/ NewManager
    \/ CallerBuild
    \/ Add
    \/ GetAll
    \/ Clear
    \/ CallerSetsField
    \/ CallerSetsHeader
    \/ CallerWritesView

HistorySpec == Init /\ [][HistoryNext]_<<vars, otherVars>>


\* what GetAll returns, its maps in place of the references to them
AllEntries == DeepAll(heap, manager.history)

MapContent(h, ref) == IF ref = 0 THEN [k \in {} |-> <<>>] ELSE h[ref][1]

\* what a store opened from the file holds is what the store holds
ReloadsEqual(file) ==
    LET got == load(file) IN
    /\ got.err = NoError
    /\ Len(got.history) = Len(manager.history)
    /\ \A i \in DOMAIN manager.history :
          /\ got.history[i].Method = manager.history[i].Method
          /\ got.history[i].URL = manager.history[i].URL
          /\ got.history[i].Body = manager.history[i].Body
          /\ MapContent(got.heap, got.history[i].Headers)
                = MapContent(heap, manager.history[i].Headers)

C13_FileRoundTrips ==
    (manager.open /\ synced) =>
        /\ disk = <<[ok |-> TRUE, items |-> MarshalIndent(heap, manager.history).data]>>
        /\ manager.history = <<>> => disk[1].items = <<>>
        /\ ReloadsEqual(disk)

\* every string of the entry is valid UTF-8
ValidUTF8(e) ==
    /\ \A f \in {e.Method, e.URL, e.Body} : \A i \in DOMAIN f : f[i] # "xFF"

\* What does hold: the file is the JSON array of the sequence, and the
\* round trip is exact for entries whose strings are valid UTF-8
C13_RoundTripOfValidUTF8 ==
    (manager.open /\ synced) =>
        /\ disk = <<[ok |-> TRUE, items |-> MarshalIndent(heap, manager.history).data]>>
        /\ manager.history = <<>> => disk[1].items = <<>>
        /\ (\A i \in DOMAIN manager.history : ValidUTF8(manager.history[i]))
              => ReloadsEqual(disk)

(***************************************************************************)
(* C14  Once Add has returned the store holds a copy of its own: whatever  *)
(* the caller writes afterwards to the request it passed, its Headers and  *)
(* QueryParams included, or through the slice GetAll returned, the         *)
(* entries of the store stay as they were added.                           *)
(***************************************************************************)
C14_StoreOwnsItsCopy ==
    manager.open => AllEntries = expected

\* What does hold: the fields of the RequestData other than its maps are
\* copied; from a write to a field of the caller's own value the store
\* takes nothing
C14_FieldsAreCopied ==
    [][CallerSetsField => AllEntries' = AllEntries]_<<vars, otherVars>>


(***************************************************************************)
(* C19  In the interactive session a transport failure reaches the event   *)
(* loop as a response: the message executeRequest returns for a request    *)
(* whose client.Do failed is a *ResponseData carrying the error and the    *)
(* elapsed time.                                                           *)
(***************************************************************************)
C19_TransportFailureIsAResponseMsg ==
    (caller = "tui" /\ pc = "delivered") =>
        \A i \in DoCalls :
           log[i].err # NoError =>
              /\ msg[1].kind = "response"
              /\ msg[1].resp[1].Error = log[i].err
              /\ msg[1].resp[1].ResponseTime = duration

\* What does hold: the failure is delivered as an error with the text of
\* the carried error, and nothing of the elapsed time
C19_TransportFailureIsAnErrorMsg ==
    (caller = "tui" /\ pc = "delivered") =>
        \A i \in DoCalls :
           log[i].err # NoError =>
              msg = <<ErrorMsg(<<"request error: ">> \o log[i].err)>>

(***************************************************************************)
(* C20  In direct mode every failure ends in a non-zero exit after an      *)
(* error was printed: a validation failure before Execute is called and    *)
(* before anything is dispatched, an error returned by Execute, and a      *)
(* transport failure carried in the response, whose error is printed; the  *)
(* report of status, time, headers and body is printed only for a          *)
(* response that carries no error.                                         *)
(***************************************************************************)
\* the report has been printed
ReportPrinted == \E i \in DOMAIN stdout : stdout[i].kind = "Status: "

C20_DirectModeFailuresExitNonZero ==
    caller = "cli" =>
       /\ (\E err \in ValidateResults : err # NoError) =>
             /\ pc = "rejected" /\ exitCode = 1
             /\ stdout = <<Line("Error: ", Validate(r), 0)>>
             /\ Len(log) = 1 /\ ret = NoReturn /\ dispatched = <<>>
       /\ (pc = "exited" /\ ret.err # NoError) =>
             /\ exitCode = 1
             /\ stdout = <<Line("Error executing request: ", ret.err, 0)>>
       /\ (pc = "exited" /\ ret.err = NoError /\ ret.resp[1].Error # NoError) =>
             /\ exitCode = 1
             /\ stdout = <<Line("Error: ", ret.resp[1].Error, 0)>>
             /\ \E i \in DoCalls : log[i].err = ret.resp[1].Error
       /\ ReportPrinted =>
             /\ pc = "exited" /\ exitCode = 0
             /\ ret.err = NoError /\ ret.resp[1].Error = NoError
       /\ exitCode = 0 => ReportPrinted
       /\ exitCode = -1 => stdout = <<>>

C20_Witness ==
    /\ caller = "cli" /\ pc = "exited" /\ exitCode = 1
    /\ dispatched # <<>>
    /\ ret.err = NoError
    /\ stdout = <<Line("Error: ", <<"Get: ", "dial tcp: connection refused">>, 0)>>


(***************************************************************************)
(* The interactive session: Model.Update, src/internal/tui/model.go        *)
(***************************************************************************)
\* how many keys are typed into fields, and how many requests are in flight
MaxEdits == 1
MaxInFlight == 2

\* string(runes): the Go string of a sequence of characters
RECURSIVE Str(_)
Str(s) == IF s = <<>> THEN "" ELSE Head(s) \o Str(Tail(s))

\* strings.TrimSpace
RECURSIVE TrimSpace(_)
TrimSpace(s) ==
    IF s # <<>> /\ Head(s) = " " THEN TrimSpace(Tail(s))
    ELSE IF s # <<>> /\ s[Len(s)] = " " THEN TrimSpace(SubSeq(s, 1, Len(s) - 1))
    ELSE s

\* what the user types or pastes into a field in one key message
Typed == {<<"h", ":", "/", "/", "x">>, <<"k", ":", "v">>}

\* tea.KeyMsg: String() and, for KeyRunes, the runes
NamedKey(name) == [str |-> name, runes |-> <<>>]
RuneKey(runes) == [str |-> Str(runes), runes |-> runes]

QuitKeys == {NamedKey("ctrl+c"), RuneKey(<<"q">>)}
NavKeys == {NamedKey(n) : n \in {"tab", "shift+tab", "up", "down"}}
TextKeys == {NamedKey("ctrl+u")} \cup {RuneKey(t) : t \in Typed}

\* lines 218-226 and 229-236: the loop over the split field, a part without
\* the separator is skipped and a repeated key is overwritten
RECURSIVE parsePairs(_, _, _, _)
parsePairs(segs, sep, trim, acc) ==
    IF segs = <<>> THEN acc
    ELSE LET parts == Cut(Head(segs), sep)
             key == IF trim THEN TrimSpace(parts.before) ELSE parts.before
             value == IF trim THEN TrimSpace(parts.after) ELSE parts.after
         IN parsePairs(Tail(segs), sep, trim,
                IF parts.found
                THEN [k \in DOMAIN acc \cup {key} |-> IF k = key THEN value ELSE acc[k]]
                ELSE acc)

\* lines 198-241 with the new object written over the one the model already
\* points to
buildRequestDataInPlace(m, objs) ==
    LET in(i) == m.inputs[i].value
        authType == Str(in(2))
        obj == [NewRequestDataObject EXCEPT
                  !.URL = in(0),
                  !.Method = in(1),
                  !.Auth = AuthData(authType,
                      IF authType = BasicAuth THEN Str(in(3)) ELSE "",
                      IF authType = BasicAuth THEN Str(in(4)) ELSE "",
                      IF authType = APIKeyAuth THEN Str(in(5)) ELSE "",
                      IF authType = MutualTLSAuth THEN Str(in(6)) ELSE "",
                      IF authType = MutualTLSAuth THEN Str(in(7)) ELSE ""),
                  !.Headers = IF in(8) = <<>> THEN @
                              ELSE parsePairs(Split(in(8), ","), ":", TRUE, @),
                  !.QueryParams = IF in(9) = <<>> THEN @
                                  ELSE parsePairs(Split(in(9), "&"), "=", FALSE, @),
                  !.Body = in(10)]
    IN [model |-> m, objects |-> [objs EXCEPT ![m.requestData] = <<obj>>]]

\* lines 198-241 with every credential input copied whatever the auth type
buildRequestDataCopiesAll(m, objs) ==
    LET in(i) == m.inputs[i].value
        obj == [NewRequestDataObject EXCEPT
                  !.URL = in(0),
                  !.Method = in(1),
                  !.Auth = AuthData(Str(in(2)), Str(in(3)), Str(in(4)), Str(in(5)),
                                    Str(in(6)), Str(in(7))),
                  !.Headers = IF in(8) = <<>> THEN @
                              ELSE parsePairs(Split(in(8), ","), ":", TRUE, @),
                  !.QueryParams = IF in(9) = <<>> THEN @
                                  ELSE parsePairs(Split(in(9), "&"), "=", FALSE, @),
                  !.Body = in(10)]
        a == alloc(objs, obj)
    IN [model |-> [m EXCEPT !.requestData = a.ref], objects |-> a.heap]

\* buildRequestData, lines 198-241: m.requestData becomes a new RequestData
\* filled from the inputs
buildRequestData(m, objs) ==
    LET in(i) == m.inputs[i].value
        authType == Str(in(2))
        obj == [NewRequestDataObject EXCEPT
                  !.URL = in(0),
                  !.Method = in(1),
                  !.Auth = AuthData(authType,
                      IF authType = BasicAuth THEN Str(in(3)) ELSE "",
                      IF authType = BasicAuth THEN Str(in(4)) ELSE "",
                      IF authType = APIKeyAuth THEN Str(in(5)) ELSE "",
                      IF authType = MutualTLSAuth THEN Str(in(6)) ELSE "",
                      IF authType = MutualTLSAuth THEN Str(in(7)) ELSE ""),
                  !.Headers = IF in(8) = <<>> THEN @
                              ELSE parsePairs(Split(in(8), ","), ":", TRUE, @),
                  !.QueryParams = IF in(9) = <<>> THEN @
                                  ELSE parsePairs(Split(in(9), "&"), "=", FALSE, @),
                  !.Body = in(10)]
        a == alloc(objs, obj)
    IN [model |-> [m EXCEPT !.requestData = a.ref], objects |-> a.heap]

\* the RequestData objects the model and the commands in flight point to
Reachable(m, cs) == {m.requestData} \cup {cs[i].requestData : i \in DOMAIN cs}

\* textinput.Model.Update: an input that is not focused ignores the message;
\* runes are inserted at the cursor, which is at the end; ctrl+u deletes what
\* is before the cursor
textinputUpdate(input, k) ==
    IF ~input.focus THEN input
    ELSE IF k.str = "ctrl+u" THEN [input EXCEPT !.value = <<>>]
    ELSE IF k.runes # <<>> THEN [input EXCEPT !.value = @ \o k.runes]
    ELSE input

\* lines 188-193: on the request screen every input gets the message
updateInputs(m, k) ==
    IF m.screen = "screenRequest"
    THEN [m EXCEPT !.inputs = [i \in 0..10 |-> textinputUpdate(@[i], k)]]
    ELSE m

\* what Execute gives executeRequest: (resp, err)
ExecuteOutcomes ==
    {[resp |-> <<>>, err |-> <<"failed to read response body: ", "unexpected EOF">>]}
    \cup {[resp |-> <<TransportFailure(e, MaxElapsed)>>, err |-> NoError] :
            e \in TransportErrors}
    \cup {[resp |-> <<Answered(rr, 1)>>, err |-> NoError] : rr \in Responses}

\* lines 125-126 with q going to the focused input of the request screen
UpdateQuitNotWhileTyping(k) ==
    /\ ~quit
    /\ k \in QuitKeys
    /\ IF k.runes # <<>> /\ model.screen = "screenRequest"
       THEN model' = updateInputs(model, k) /\ UNCHANGED quit
       ELSE quit' = TRUE /\ UNCHANGED model
    /\ UNCHANGED <<objects, cmds, edits, vars, historyVars, mainVars>>

\* lines 125-126: ctrl+c and q end the program
UpdateQuit(k) ==
    /\ ~quit
    /\ k \in QuitKeys
    /\ quit' = TRUE
    /\ UNCHANGED <<model, objects, cmds, edits, vars, historyVars, mainVars>>

\* lines 128-154 with the index stopping at the ends
UpdateNavigateNoWrap(k) ==
    /\ ~quit
    /\ k \in NavKeys
    /\ IF model.screen = "screenRequest"
       THEN LET moved == IF k.str \in {"up", "shift+tab"}
                         THEN model.activeInput - 1 ELSE model.activeInput + 1
            IN model' = [model EXCEPT
                           !.activeInput = moved,
                           !.inputs = [i \in 0..10 |-> [@[i] EXCEPT !.focus = (i = moved)]]]
       ELSE UNCHANGED model
    /\ UNCHANGED <<objects, cmds, quit, edits, vars, historyVars, mainVars>>

\* lines 128-154: tab, shift+tab, up and down move the focus on the request
\* screen; on the other screens the message falls through to line 180
UpdateNavigate(k) ==
    /\ ~quit
    /\ k \in NavKeys
    /\ IF model.screen = "screenRequest"
       THEN LET moved == IF k.str \in {"up", "shift+tab"}
                         THEN model.activeInput - 1 ELSE model.activeInput + 1
                wrapped == IF moved > 10 THEN 0
                           ELSE IF moved < 0 THEN 10 ELSE moved
            IN model' = [model EXCEPT
                           !.activeInput = wrapped,
                           !.inputs = [i \in 0..10 |-> [@[i] EXCEPT !.focus = (i = wrapped)]]]
       ELSE UNCHANGED model
    /\ UNCHANGED <<objects, cmds, quit, edits, vars, historyVars, mainVars>>

\* lines 156-162 without the reset of the response and the error
UpdateEscKeepsResponse ==
    /\ ~quit
    /\ IF model.screen # "screenRequest"
       THEN model' = [model EXCEPT !.screen = "screenRequest"]
       ELSE model' = updateInputs(model, NamedKey("esc"))
    /\ UNCHANGED <<objects, cmds, quit, edits, vars, historyVars, mainVars>>

\* lines 156-162: esc leaves the preview and the response screen; on the
\* request screen the message falls through to the inputs
UpdateEsc ==
    /\ ~quit
    /\ IF model.screen # "screenRequest"
       THEN model' = [model EXCEPT !.screen = "screenRequest",
                                   !.response = <<>>, !.err = <<>>]
       ELSE model' = updateInputs(model, NamedKey("esc"))
    /\ UNCHANGED <<objects, cmds, quit, edits, vars, historyVars, mainVars>>

\* lines 164-177 with the preview's case taken on the response screen too
UpdateEnterResends ==
    /\ ~quit
    /\ IF model.screen = "screenRequest"
       THEN LET built == buildRequestData(model, objects) IN
            /\ model' = [built.model EXCEPT !.screen = "screenPreview"]
            /\ objects' = Collect(built.objects, Reachable(built.model, cmds))
            /\ UNCHANGED cmds
       ELSE /\ Len(cmds) < MaxInFlight
            /\ model' = [model EXCEPT !.screen = "screenResponse",
                                      !.response = <<>>, !.err = <<>>]
            /\ cmds' = Append(cmds, [requestData |-> model.requestData,
                                     built |-> objects[model.requestData][1]])
            /\ UNCHANGED objects
    /\ UNCHANGED <<quit, edits, vars, historyVars, mainVars>>

\* lines 164-177: enter builds the request and shows the preview, or sends
\* the previewed request and shows the response screen; the command is the
\* method value m.executeRequest, which holds the model's requestData pointer
UpdateEnter ==
    /\ ~quit
    /\ CASE model.screen = "screenRequest" ->
              LET built == buildRequestData(model, objects) IN
              /\ model' = [built.model EXCEPT !.screen = "screenPreview"]
              /\ objects' = Collect(built.objects, Reachable(built.model, cmds))
              /\ UNCHANGED cmds
         [] model.screen = "screenPreview" ->
              /\ Len(cmds) < MaxInFlight
              /\ model' = [model EXCEPT !.screen = "screenResponse",
                                        !.response = <<>>, !.err = <<>>]
              /\ cmds' = Append(cmds, [requestData |-> model.requestData,
                                       built |-> objects[model.requestData][1]])
              /\ UNCHANGED objects
         [] OTHER -> UNCHANGED <<model, objects, cmds>>
    /\ UNCHANGED <<quit, edits, vars, historyVars, mainVars>>

\* lines 180-193: any other key goes to the viewport on the response screen
\* and to the inputs on the request screen
UpdateText(k) ==
    /\ ~quit
    /\ k \in TextKeys
    /\ IF model.screen = "screenRequest"
       THEN /\ edits < MaxEdits
            /\ edits' = edits + 1
            /\ model' = updateInputs(model, k)
       ELSE UNCHANGED <<model, edits>>
    /\ UNCHANGED <<objects, cmds, quit, vars, historyVars, mainVars>>

\* UpdateMsg with the error messages lost on the way to the event loop
UpdateMsgLosesError(i) ==
    /\ ~quit
    /\ i \in DOMAIN cmds
    /\ LET ran == objects[cmds[i].requestData][1]
           rest == SubSeq(cmds, 1, i - 1) \o SubSeq(cmds, i + 1, Len(cmds))
       IN /\ \E rt \in ExecuteOutcomes :
                LET m == IF Validate(ran) # NoError
                         THEN ErrorMsg(<<"invalid request: ">> \o Validate(ran))
                         ELSE executeRequestMsg(rt)
                IN model' = IF m.kind = "error"
                            THEN model
                            ELSE [model EXCEPT !.response = m.resp]
          /\ cmds' = rest
          /\ objects' = Collect(objects, Reachable(model, rest))
    /\ UNCHANGED <<quit, edits, vars, historyVars, mainVars>>

\* executeRequest, lines 243-259, run by the command i, and Update's cases
\* for its message, lines 115-122
UpdateMsg(i) ==
    /\ ~quit
    /\ i \in DOMAIN cmds
    /\ LET ran == objects[cmds[i].requestData][1]
           rest == SubSeq(cmds, 1, i - 1) \o SubSeq(cmds, i + 1, Len(cmds))
       IN /\ \E rt \in ExecuteOutcomes :
                LET m == IF Validate(ran) # NoError
                         THEN ErrorMsg(<<"invalid request: ">> \o Validate(ran))
                         ELSE executeRequestMsg(rt)
                IN model' = IF m.kind = "error"
                            THEN [model EXCEPT !.err = <<m.err>>]
                            ELSE [model EXCEPT !.response = m.resp]
          /\ cmds' = rest
          /\ objects' = Collect(objects, Reachable(model, rest))
    /\ UNCHANGED <<quit, edits, vars, historyVars, mainVars>>

SessionNext ==
    \/ \E k \in QuitKeys : UpdateQuit(k)
    \/ \E k \in NavKeys : UpdateNavigate(k)
    \/ UpdateEsc
    \/ UpdateEnter
    \/ \E k \in TextKeys : UpdateText(k)
    \/ \E i \in 1..MaxInFlight : UpdateMsg(i)

SessionSpec == Init /\ [][SessionNext]_<<vars, otherVars>>


\* a request is dispatched in a step: one more command is in flight
Dispatch == Len(cmds') > Len(cmds)

\* C15: the screen changes only from Request to Preview on Enter, from Preview
\* to Response on Enter, and from Preview or Response to Request on Escape;
\* the request the model shows changes only by Enter on the Request screen;
\* a request is dispatched only by Enter on the Preview screen and is the
\* request shown there; Enter on the Response screen dispatches nothing.
C15_ScreensAndDispatch ==
    [][/\ model'.screen # model.screen =>
            \/ /\ model.screen = "screenRequest"
               /\ model'.screen = "screenPreview"
               /\ UpdateEnter
            \/ /\ model.screen = "screenPreview"
               /\ model'.screen = "screenResponse"
               /\ UpdateEnter
            \/ /\ model.screen \in {"screenPreview", "screenResponse"}
               /\ model'.screen = "screenRequest"
               /\ UpdateEsc
       /\ objects'[model'.requestData] # objects[model.requestData] =>
            /\ model.screen = "screenRequest"
            /\ UpdateEnter
            /\ objects'[model'.requestData] =
                   <<buildRequestData(model, <<>>).objects[1][1]>>
       /\ Dispatch =>
            /\ model.screen = "screenPreview"
            /\ UpdateEnter
            /\ cmds' = Append(cmds, [requestData |-> model.requestData,
                                     built |-> objects[model.requestData][1]])
            /\ objects' = objects
            /\ model'.requestData = model.requestData
       /\ (UpdateEnter /\ model.screen = "screenResponse") => cmds' = cmds
      ]_<<vars, otherVars>>

\* a request with a typed URL has been previewed and dispatched, and the
\* response screen is shown while it is in flight
C15_Witness ==
    /\ model.screen = "screenResponse"
    /\ Len(cmds) = 1
    /\ cmds[1].requestData = model.requestData
    /\ cmds[1].built.URL = <<"h", ":", "/", "/", "x">>
    /\ objects[model.requestData] = <<cmds[1].built>>

\* C16: Escape on the Preview or Response screen gives the Request screen with
\* the stored response and the stored error cleared; Escape on the Request
\* screen changes neither the screen nor the stored response and error; in
\* both cases the inputs' contents and the focus index stay as they were.
C16_Escape ==
    [][UpdateEsc =>
         /\ model'.inputs = model.inputs
         /\ model'.activeInput = model.activeInput
         /\ IF model.screen \in {"screenPreview", "screenResponse"}
            THEN /\ model'.screen = "screenRequest"
                 /\ model'.response = <<>>
                 /\ model'.err = <<>>
            ELSE /\ model'.screen = model.screen
                 /\ model'.response = model.response
                 /\ model'.err = model.err
      ]_<<vars, otherVars>>

\* Escape has left the response screen while the request was in flight: the
\* request screen is shown with the typed URL still in its field, nothing
\* stored, and the focus where it was
C16_Witness ==
    /\ model.screen = "screenRequest"
    /\ Len(cmds) = 1
    /\ cmds[1].built.URL = <<"h", ":", "/", "/", "x">>
    /\ model.inputs[0].value = <<"h", ":", "/", "/", "x">>
    /\ model.activeInput = 0
    /\ model.response = <<>>
    /\ model.err = <<>>

\* the focus index is in range and exactly the input at it is focused
FocusInRange ==
    /\ model.activeInput \in 0..10
    /\ \A i \in 0..10 : model.inputs[i].focus <=> (i = model.activeInput)

KeyStep ==
    \/ \E k \in NavKeys : UpdateNavigate(k)
    \/ UpdateEsc
    \/ UpdateEnter
    \/ \E k \in TextKeys : UpdateText(k)

\* C18: a key processed while a request is in flight (navigation, Escape,
\* Enter, text typed into a field) leaves every command in flight and the
\* request it holds as they were, and the request a command executes is the
\* one that was built at the Enter before its dispatch.  ctrl+c and q end the
\* program and are no part of this.
C18_InFlightIsUntouched ==
    [][/\ KeyStep =>
            \A i \in DOMAIN cmds :
                /\ i \in DOMAIN cmds'
                /\ cmds'[i] = cmds[i]
                /\ cmds[i].requestData \in DOMAIN objects'
                /\ objects'[cmds[i].requestData] = objects[cmds[i].requestData]
       /\ \A i \in DOMAIN cmds :
            UpdateMsg(i) => objects[cmds[i].requestData] = <<cmds[i].built>>
      ]_<<vars, otherVars>>

\* while a request is in flight the user has gone back, typed a URL and built
\* another request, which the preview shows
C18_Witness ==
    /\ model.screen = "screenPreview"
    /\ Len(cmds) = 1
    /\ model.requestData # cmds[1].requestData
    /\ objects[cmds[1].requestData] = <<cmds[1].built>>
    /\ cmds[1].built.URL = <<>>
    /\ objects[model.requestData][1].URL = <<"h", ":", "/", "/", "x">>

\* C29: when Add or Clear returns an error because the file was not written,
\* GetAll returns afterwards what it returned before the call.
C29_FailedRewriteLeavesMemory ==
    [][((Add \/ Clear) /\ ~synced') => AllEntries' = AllEntries]_<<vars, otherVars>>

\* what holds instead: Add and Clear change the sequence in memory the same
\* way whether or not the file is written
C29_MemoryChangesRegardless ==
    [][/\ Add => AllEntries' = Append(AllEntries, Deep(heap, held[1]))
       /\ Clear => AllEntries' = <<>>]_<<vars, otherVars>>

\* the outbound request Execute builds from r when the range over r.Headers
\* runs in this order
OutboundIn(order) ==
    ApplyAuth([NewRequest(r.Method, urlString(baseURL), r.Body).req EXCEPT
                  !.Header = AddHeaders(@, order, r.Headers)],
              DefaultClient, r.Auth).req

\* C24: the request is what it was before the call in every step of Validate
\* and Execute and after they return, and the outbound request Execute hands
\* to the client is the one every execution of the same request builds.
C24_ReadOnlySoSameOutbound ==
    /\ [][pc # "idle" => r' = r]_<<vars, otherVars>>
    /\ [](pc = "Do" => \A order \in RangeOrders(DOMAIN r.Headers) : req = OutboundIn(order))

\* what holds instead: the request is never written, and the outbound request
\* is the one some order of the range over r.Headers gives
C24_ReadOnly ==
    /\ [][pc # "idle" => r' = r]_<<vars, otherVars>>
    /\ [](pc = "Do" => \E order \in RangeOrders(DOMAIN r.Headers) : req = OutboundIn(order))

\* shouldSkipAuthField, lines 301-319: the credential inputs the request
\* screen leaves out for an auth type
shouldSkipAuthField(fieldIndex, authType) ==
    CASE authType = NoAuth -> fieldIndex >= 3 /\ fieldIndex <= 7
      [] authType = BasicAuth -> fieldIndex >= 5 /\ fieldIndex <= 7
      [] authType = APIKeyAuth ->
            (fieldIndex >= 3 /\ fieldIndex <= 4) \/ (fieldIndex >= 6 /\ fieldIndex <= 7)
      [] authType = MutualTLSAuth -> fieldIndex >= 3 /\ fieldIndex <= 5
      [] OTHER -> FALSE

\* C28: on the Request screen the input at the focus index is one the screen
\* displays for the value of the Auth Type input.
C28_FocusIsDisplayed ==
    model.screen = "screenRequest" =>
        ~shouldSkipAuthField(model.activeInput, Str(model.inputs[2].value))

\* what holds instead: the focus moves over all eleven inputs whatever the
\* Auth Type input holds, so it reaches each of the hidden inputs 3..7
C28_FocusIgnoresAuthType ==
    [][\A k \in NavKeys :
          (UpdateNavigate(k) /\ model.screen = "screenRequest") =>
              /\ model'.activeInput \in {(model.activeInput + 1) % 11,
                                         (model.activeInput + 10) % 11}
              /\ model'.inputs[2].value = model.inputs[2].value]_<<vars, otherVars>>

\* C23: while the session runs, ctrl+c and q are handled on every screen, with
\* or without a request in flight and whatever input is focused; the step
\* returns tea.Quit and leaves the inputs, the focus index, the screen, the
\* stored response and the stored error as they were.
C23_QuitFromEverywhere ==
    /\ [](~quit => \A k \in QuitKeys : ENABLED UpdateQuit(k))
    /\ [][\A k \in QuitKeys : UpdateQuit(k) => (quit' /\ model' = model)]_<<vars, otherVars>>

\* the program has been quit on the request screen, with text in the focused
\* input and a request in flight
C23_Witness ==
    /\ quit
    /\ model.screen = "screenRequest"
    /\ model.inputs[model.activeInput].focus
    /\ model.inputs[model.activeInput].value = <<"h", ":", "/", "/", "x">>
    /\ cmds # <<>>
    /\ model.response = <<>>

\* the response screen shows neither a response nor an error
Loading ==
    model.screen = "screenResponse" /\ model.response = <<>> /\ model.err = <<>>

\* C26: the completion of a command is stored only while the response screen
\* is shown and only when the command is the one dispatched last, whose
\* request the model still points to; on the Request and Preview screens
\* nothing is stored.
C26_OutcomeIsOfLastDispatch ==
    /\ [](model.screen # "screenResponse" => (model.response = <<>> /\ model.err = <<>>))
    /\ [][\A i \in DOMAIN cmds :
             UpdateMsg(i) => /\ model.screen = "screenResponse"
                             /\ cmds[i].requestData = model.requestData
         ]_<<vars, otherVars>>

\* what holds instead: the completion of any command in flight is stored, on
\* whatever screen the session is
C26_AnyCompletionIsStored ==
    [][\A i \in DOMAIN cmds :
          UpdateMsg(i) => /\ model'.screen = model.screen
                          /\ (model'.response # <<>> \/ model'.err # <<>>)
      ]_<<vars, otherVars>>

\* The session of a user who leaves the focus on the URL input, with every
\* command in flight returning its message: the Bubble Tea runtime runs a
\* command in a goroutine of its own and sends what it returns to Update, and
\* the round trip is assumed to end.
SessionLiveNext ==
    \/ \E k \in QuitKeys : UpdateQuit(k)
    \/ UpdateEsc
    \/ UpdateEnter
    \/ \E k \in TextKeys : UpdateText(k)
    \/ \E i \in 1..MaxInFlight : UpdateMsg(i)

SessionLiveSpec ==
    /\ Init
    /\ [][SessionLiveNext]_<<vars, otherVars>>
    /\ WF_<<vars, otherVars>>(\E i \in 1..MaxInFlight : UpdateMsg(i))

\* C27: the completion of a command takes that command, and no other, out of
\* the commands in flight and stores either an error or a response, one of
\* the two; and while the program runs the response screen does not stay on
\* Loading.
C27_OneCompletionPerDispatch ==
    /\ [][\A i \in DOMAIN cmds :
             UpdateMsg(i) =>
                /\ cmds' = SubSeq(cmds, 1, i - 1) \o SubSeq(cmds, i + 1, Len(cmds))
                /\ \/ /\ model'.err # <<>>
                      /\ model' = [model EXCEPT !.err = model'.err]
                   \/ /\ model'.response # <<>>
                      /\ model' = [model EXCEPT !.response = model'.response]
         ]_<<vars, otherVars>>
    /\ [](Loading => cmds # <<>>)
    /\ (Loading ~> (~Loading \/ quit))

\* the response screen shows the response of the one request dispatched
C27_Witness ==
    /\ model.screen = "screenResponse"
    /\ cmds = <<>>
    /\ model.err = <<>>
    /\ model.response # <<>>
    /\ model.response[1].StatusCode = 200

(***************************************************************************)
(* buildRequestData over filled-in request screens                         *)
(***************************************************************************)
\* what the Auth Type input can hold, and what the inputs 3..7 hold when
\* something has been typed into them
AuthTypeTexts ==
    { <<>>, <<"n", "o", "n", "e">>, <<"b", "a", "s", "i", "c">>,
      <<"a", "p", "i", "k", "e", "y">>, <<"m", "t", "l", "s">>,
      <<"B", "a", "s", "i", "c">> }

CredentialText(i) ==
    CASE i = 3 -> <<"u">> [] i = 4 -> <<"p">> [] i = 5 -> <<"k">>
      [] i = 6 -> <<"c">> [] OTHER -> <<"y">>

\* the models of a request screen with a URL, an auth type and any of the
\* credential inputs filled in; the focus is on the URL
FilledModels ==
    { [NewModel EXCEPT !.inputs =
          [i \in 0..10 |->
              [@[i] EXCEPT !.value =
                  CASE i = 0 -> <<"h", ":", "/", "/", "x">>
                    [] i = 2 -> t
                    [] i \in filled -> CredentialText(i)
                    [] OTHER -> @]]] :
        t \in AuthTypeTexts, filled \in SUBSET (3..7) }

BuildInit ==
    /\ ExecuteIdle
    /\ HistoryIdle
    /\ MainIdle
    /\ model \in FilledModels
    /\ objects = <<<<NewRequestDataObject>>>>
    /\ cmds = <<>>
    /\ quit = FALSE
    /\ edits = 0

BuildNext ==
    \/ UpdateEnter
    \/ UpdateEsc
    \/ \E i \in 1..MaxInFlight : UpdateMsg(i)

BuildSpec == BuildInit /\ [][BuildNext]_<<vars, otherVars>>

\* C25: the request built by Enter on the Request screen has the auth type
\* entered, the user name and password only for basic, the API key only for
\* apikey, the certificate and key paths only for mtls, and every other
\* credential empty whatever the inputs hold; it is a new request: neither the
\* one the model pointed to nor one a command in flight holds, and those stay
\* as they were.
C25_OnlyCredentialsOfTheType ==
    [][(UpdateEnter /\ model.screen = "screenRequest") =>
         LET built == objects'[model'.requestData][1]
             type == Str(model.inputs[2].value)
             in(i) == Str(model.inputs[i].value)
         IN /\ built.Auth.Type = type
            /\ built.Auth.Username = IF type = "basic" THEN in(3) ELSE ""
            /\ built.Auth.Password = IF type = "basic" THEN in(4) ELSE ""
            /\ built.Auth.APIKey = IF type = "apikey" THEN in(5) ELSE ""
            /\ built.Auth.CertFile = IF type = "mtls" THEN in(6) ELSE ""
            /\ built.Auth.KeyFile = IF type = "mtls" THEN in(7) ELSE ""
            /\ model'.requestData # model.requestData
            /\ \A i \in DOMAIN cmds :
                  /\ cmds[i].requestData # model'.requestData
                  /\ objects'[cmds[i].requestData] = objects[cmds[i].requestData]
      ]_<<vars, otherVars>>

\* the preview of an apikey request built while the user name, the password
\* and the certificate path inputs hold text, with an earlier request in
\* flight
C25_Witness ==
    /\ model.screen = "screenPreview"
    /\ Len(cmds) = 1
    /\ Str(model.inputs[2].value) = "apikey"
    /\ \A i \in 3..6 : model.inputs[i].value # <<>>
    /\ objects[model.requestData][1].Auth = AuthData("apikey", "", "", "k", "", "")

(***************************************************************************)
(* The command line: main and executeDirectRequest, src/unnamed/part_003   *)
(***************************************************************************)
\* values of --headers
HeaderStrings ==
    { <<>>,
      <<"k", ":", "v">>,
      <<"k">>,
      <<" ", "k", ":", "1", ",", "k", " ", ":", " ", "a", ":", "b", " ", ",", "j">>,
      <<":", "v", ",", "m", ":">> }

\* the auth flags of the documentation, as a user gives them
AuthFlags ==
    { [k \in {} |-> ""],
      [k \in {"auth-type"} |-> "none"],
      [k \in {"auth-type", "auth-username", "auth-password"} |->
          CASE k = "auth-type" -> "basic" [] k = "auth-username" -> "user"
            [] OTHER -> "pw"],
      [k \in {"auth-type", "auth-apikey"} |->
          IF k = "auth-type" THEN "apikey" ELSE "key1"],
      [k \in {"auth-type", "auth-cert", "auth-key"} |->
          CASE k = "auth-type" -> "mtls" [] k = "auth-cert" -> "cert.pem"
            [] OTHER -> "key.pem"] }

\* the command lines: values of the four flags main defines (lines 18-21),
\* method, url, headers and body, and the flags given that it does not define
CommandLines ==
    [method : {<<>>, <<"G">>},
     url : {<<>>, <<"h", ":", "/", "/", "x">>},
     headers : HeaderStrings,
     body : {"", "data"},
     undefined : AuthFlags]

\* lines 50-56 with the first occurrence of a key kept
RECURSIVE directHeadersFirstWins(_, _)
directHeadersFirstWins(segs, acc) ==
    IF segs = <<>> THEN acc
    ELSE LET parts == Cut(Head(segs), ":")
             key == Str(TrimSpace(parts.before))
         IN directHeadersFirstWins(Tail(segs),
                IF parts.found /\ key \notin DOMAIN acc
                THEN [k \in DOMAIN acc \cup {key} |->
                        IF k = key THEN TrimSpace(parts.after) ELSE acc[k]]
                ELSE acc)

\* lines 50-56: the loop over strings.Split(headers, ","), req.Headers being
\* acc
RECURSIVE directHeaders(_, _)
directHeaders(segs, acc) ==
    IF segs = <<>> THEN acc
    ELSE LET parts == Cut(Head(segs), ":")
             key == Str(TrimSpace(parts.before))
         IN directHeaders(Tail(segs),
                IF parts.found
                THEN [k \in DOMAIN acc \cup {key} |->
                        IF k = key THEN TrimSpace(parts.after) ELSE acc[k]]
                ELSE acc)

\* executeDirectRequest, lines 40-57: the request made of the flags
directRequest(method, url, headers, body) ==
    [Method |-> IF method = <<>> THEN <<"G", "E", "T">> ELSE method,
     URL |-> url,
     Headers |-> IF headers = <<>> THEN NoValues
                 ELSE directHeaders(Split(headers, ","), NoValues),
     QueryParams |-> NoValues,
     Body |-> body,
     Timestamp |-> 0,
     Auth |-> AuthData(NoAuth, "", "", "", "", "")]

\* main, lines 17-38: flag.Parse ends the process with status 2 at a flag that
\* is not defined; with a URL the request is executed directly, without one
\* the interactive session starts
Main ==
    /\ pc = "idle"
    /\ \E a \in CommandLines :
          /\ args' = a
          /\ IF DOMAIN a.undefined # {}
             THEN /\ pc' = "exited"
                  /\ exitCode' = 2
                  /\ UNCHANGED <<caller, r>>
             ELSE IF a.url # <<>>
             THEN /\ pc' = "CallerValidate"
                  /\ caller' = "cli"
                  /\ r' = directRequest(a.method, a.url, a.headers, a.body)
                  /\ UNCHANGED exitCode
             ELSE /\ pc' = "session"
                  /\ UNCHANGED <<caller, r, exitCode>>
    /\ UNCHANGED <<baseURL, req, client, httpResp, now, start, duration, ret, log,
                   dispatched, stdout, msg, historyVars, sessionVars>>

MainNext ==
    \/ Main
    \/ CallerValidate
    \/ ExecuteValidate
    \/ ExecuteBuildURL
    \/ ExecuteNewRequest
    \/ ExecuteAddHeaders
    \/ ExecuteApplyAuth
    \/ ExecuteDo
    \/ ExecuteReadBody
    \/ DirectReport

MainSpec == Init /\ [][MainNext]_<<vars, otherVars>>

\* the value of a flag of the command line, "" when it was not given
FlagValue(name) ==
    IF name \in DOMAIN args.undefined THEN args.undefined[name] ELSE ""

\* C21: when the command line gives --auth-type with its credentials, the
\* request read from the flags carries that auth type and those credentials,
\* and the process does not end before that request has been validated.
C21_AuthFromFlags ==
    (pc # "idle" /\ "auth-type" \in DOMAIN args.undefined) =>
        /\ r.Auth = AuthData(FlagValue("auth-type"), FlagValue("auth-username"),
                             FlagValue("auth-password"), FlagValue("auth-apikey"),
                             FlagValue("auth-cert"), FlagValue("auth-key"))
        /\ pc = "exited" => log # <<>>

\* what holds instead: a command line with an auth flag ends the process with
\* status 2 before any request is made, and the request of every other
\* command line has the auth type none and no credentials
C21_AuthFlagsAreNotDefined ==
    /\ (pc # "idle" /\ DOMAIN args.undefined # {}) =>
          /\ pc = "exited"
          /\ exitCode = 2
          /\ log = <<>>
          /\ dispatched = <<>>
    /\ (pc \notin {"idle", "session"} /\ DOMAIN args.undefined = {}) =>
          r.Auth = AuthData(NoAuth, "", "", "", "", "")

\* the pieces of a headers string that hold a colon
HeaderPieces(s) ==
    LET pieces == Split(s, ",") IN {i \in DOMAIN pieces : Cut(pieces[i], ":").found}

\* the mapping the claim describes: the key is what stands before the first
\* colon of a piece and the value what stands after it, both trimmed; of the
\* pieces with the same key the last one gives the value
DescribedHeaders(s) ==
    LET pieces == Split(s, ",")
        keyOf(i) == Str(TrimSpace(Cut(pieces[i], ":").before))
        last(k) == CHOOSE i \in HeaderPieces(s) :
                      /\ keyOf(i) = k
                      /\ \A j \in HeaderPieces(s) : keyOf(j) = k => j <= i
    IN [k \in {keyOf(i) : i \in HeaderPieces(s)} |->
           TrimSpace(Cut(pieces[last(k)], ":").after)]

\* the headers buildRequestData makes of the same string in the Headers input
SessionHeaders(s) ==
    LET built == buildRequestData(
                     [NewModel EXCEPT !.inputs[8].value = s], <<>>).objects[1][1]
    IN [k \in {Str(key) : key \in DOMAIN built.Headers} |->
           built.Headers[CHOOSE key \in DOMAIN built.Headers : Str(key) = k]]

\* C22: the headers of the request made from --headers are those of the
\* pieces between commas that hold a colon, split at the first colon, key and
\* value trimmed, the last piece of a key giving its value; and they are the
\* headers the interactive session builds from the same string.
C22_HeadersParsedAlike ==
    (pc \notin {"idle", "session"} /\ DOMAIN args.undefined = {}) =>
        /\ r.Headers = DescribedHeaders(args.headers)
        /\ r.Headers = SessionHeaders(args.headers)

\* the request of a command line whose --headers holds a key twice, spaces
\* around keys and values, a value with a colon and a piece without one
C22_Witness ==
    /\ pc = "Execute"
    /\ caller = "cli"
    /\ Len(args.headers) = 15
    /\ r.Headers = [k \in {"k"} |-> <<"a", ":", "b">>]

=============================================================================
